---- MODULE Spec2Model ----
(***************************************************************************)
(* Transaction lifecycle, reconciliation engine and password-reset ticket  *)
(* workflow of Admin_page1.py (library circulation backend).               *)
(*                                                                         *)
(* The record store is a set of whole collections (books, transactions,    *)
(* tickets, users, admins).  Every handler loads whole collections,        *)
(* mutates them in memory and saves whole collections back.  The sessions  *)
(* (ACTIVE_SESSIONS) are process memory and are never saved.               *)
(*                                                                         *)
(* Time is counted in whole seconds since midnight of day 0.  A stored     *)
(* date string is a record [k, v]: k is the shape of the text ("sec" for   *)
(* "%Y-%m-%d %H:%M:%S", "min" for "%Y-%m-%d %H:%M", "day" for "%Y-%m-%d",  *)
(* "bad" for text no format parses, "empty" for "", "none" for a missing   *)
(* key or null) and v is the instant the text denotes.                     *)
(***************************************************************************)
EXTENDS Integers, Sequences, FiniteSets, TLC

VARIABLES books, transactions, tickets, users, admins, now, calls, op, prev,
          pc, loc, sessions, logins

vars == <<books, transactions, tickets, users, admins, now, calls, op, prev,
          pc, loc, sessions, logins>>

(***************************************************************************)
(* Bounds of the model.                                                    *)
(***************************************************************************)
MaxCalls == 4
MaxQuotaCalls == 2
MaxAnyCalls == 2
MaxTicketCalls == 4
MaxConcCalls == 4
MaxMemberCalls == 4
MaxPickupCalls == 3
MaxInvalidCalls == 3
MaxSpellingCalls == 3

(***************************************************************************)
(* Program constants.                                                      *)
(***************************************************************************)
MaxActiveReservations == 5
ReservationMinutes == 30
TicketMinutes == 5

MinuteSecs == 60
DaySecs == 24 * 60 * MinuteSecs
\* The clock of the first call: 00:00:17 on day 1.
StartNow == DaySecs + 17

(***************************************************************************)
(* Date strings: strftime, strptime and truthiness.                        *)
(***************************************************************************)
NoneV == [k |-> "none", v |-> 0]
EmptyV == [k |-> "empty", v |-> 0]
BadV == [k |-> "bad", v |-> 0]

StrfSec(t) == [k |-> "sec", v |-> t]
StrfMin(t) == [k |-> "min", v |-> t - (t % MinuteSecs)]
StrfDay(t) == [k |-> "day", v |-> t - (t % DaySecs)]

Truthy(d) == d.k \notin {"none", "empty"}

\* datetime.strptime(d, fmt) succeeds exactly when the text has the shape of fmt.
Parses(d, fmt) == d.k = fmt

ParsesAny(d) == Parses(d, "sec") \/ Parses(d, "min") \/ Parses(d, "day")

DateOf(t) == t \div DaySecs

\* a or b of Python, on date strings.
OrElse(a, b) == IF Truthy(a) THEN a ELSE b

(***************************************************************************)
(* Identifiers: str(x).strip().lower() over the identifiers of the model.  *)
(***************************************************************************)
StripLower(s) ==
    CASE s = "Alice" -> "alice"
      [] s = " bob " -> "bob"
      [] s = "Admin" -> "admin"
      [] s = "B1" -> "b1"
      [] s = "B2" -> "b2"
      [] OTHER -> s

ActiveStatuses == {"Reserved", "Borrowed", "Unreturned"}

\* str(status).strip() over the status texts of the model.
StripStatus(s) ==
    CASE s = " Reserved" -> "Reserved"
      [] s = "Borrowed " -> "Borrowed"
      [] OTHER -> s

\* The least index of a set of indices, 0 when there is none: where a for loop
\* stops at its first match, or what next(..., None) finds.
FirstIndex(found) ==
    IF found = {} THEN 0
    ELSE CHOOSE i \in found : \A j \in found : i <= j

(***************************************************************************)
(* run_auto_sync_engine                                                    *)
(***************************************************************************)
\* t.get("reservation_expiry") or t.get("expiry")
ExpiryRaw(t) == OrElse(t.reservation_expiry, t.expiry)

\* The format loop of step 1: the first format that parses decides; a text
\* that no format parses leaves expired = False.
ReservationExpired(t, n) ==
    LET e == ExpiryRaw(t)
    IN  /\ Truthy(e)
        /\ ParsesAny(e)
        /\ n > e.v

\* An expiry that looks for the book among the available ones.
ReleasesAvailableBook(b, t) == b.book_no = t.book_no /\ b.status = "Available"

\* The book an expired reservation releases.
ReleasesBook(b, t) == b.book_no = t.book_no /\ b.status = "Reserved"

\* A step 1 without the continue after the release: the expired reservation
\* stays in active_transactions.
ExpiredKept(acc, t, j) ==
    IF j = 0 THEN [acc EXCEPT !.active = Append(@, t)]
    ELSE [acc EXCEPT !.books[j].status = "Available", !.changed = TRUE,
                     !.active = Append(@, t)]

\* A step 1 that drops the expired reservation and releases no book.
ExpiredUnreleased(acc, t, j) == acc

\* What step 1 does with an expired reservation t: the first book it
\* releases (index j, 0 when there is none) becomes Available, and t is left
\* out of active_transactions.
ExpiredStep(acc, t, j) ==
    IF j = 0 THEN acc
    ELSE [acc EXCEPT !.books[j].status = "Available", !.changed = TRUE]

\* Step 1, one pass over the transactions.  acc = [books, active, changed].
RECURSIVE SyncReservations(_, _, _, _)
SyncReservations(txs, i, acc, n) ==
    IF i > Len(txs) THEN acc
    ELSE
      LET t == txs[i]
          released == {j \in 1..Len(acc.books) : ReleasesBook(acc.books[j], t)}
      IN  IF StripStatus(t.status) # "Reserved"
          THEN SyncReservations(txs, i + 1,
                 [acc EXCEPT !.active = Append(@, t)], n)
          ELSE IF ~Truthy(ExpiryRaw(t))
          THEN SyncReservations(txs, i + 1,
                 [acc EXCEPT !.active = Append(@, t)], n)
          ELSE IF ReservationExpired(t, n)
          THEN SyncReservations(txs, i + 1,
                 ExpiredStep(acc, t, FirstIndex(released)), n)
          ELSE SyncReservations(txs, i + 1,
                 [acc EXCEPT !.active = Append(@, t)], n)

\* An overdue test that counts the due day itself as overdue.
IsOverdueOnDueDay(t, n) ==
    /\ StripStatus(t.status) = "Borrowed"
    /\ Truthy(t.return_date)
    /\ ParsesAny(t.return_date)
    /\ DateOf(n) >= DateOf(t.return_date.v)

\* The overdue test of step 1.1 on one transaction.
IsOverdue(t, n) ==
    /\ StripStatus(t.status) = "Borrowed"
    /\ Truthy(t.return_date)
    /\ ParsesAny(t.return_date)
    /\ DateOf(n) > DateOf(t.return_date.v)

\* An overdue step that marks the transaction and forgets the book.
OverdueStepOfTransaction(acc, i, j) ==
    [acc EXCEPT !.txs[i].status = "Unreturned", !.changed = TRUE]

\* What step 1.1 does with the overdue transaction at index i: it becomes
\* Unreturned, and so does the first book of its book_no (index j, 0: none).
OverdueStep(acc, i, j) ==
    IF j = 0
    THEN [acc EXCEPT !.txs[i].status = "Unreturned", !.changed = TRUE]
    ELSE [acc EXCEPT !.txs[i].status = "Unreturned", !.changed = TRUE,
                     !.books[j].status = "Unreturned"]

\* Step 1.1, one pass over the transactions.  acc = [books, txs, changed].
RECURSIVE SyncOverdue(_, _, _)
SyncOverdue(i, acc, n) ==
    IF i > Len(acc.txs) THEN acc
    ELSE
      LET same == {j \in 1..Len(acc.books) :
                     acc.books[j].book_no = acc.txs[i].book_no}
      IN  IF IsOverdue(acc.txs[i], n)
          THEN SyncOverdue(i + 1,
                 OverdueStep(acc, i, FirstIndex(same)), n)
          ELSE SyncOverdue(i + 1, acc, n)

\* A sweep that spares the tickets staff approved.
TicketLiveOrApproved(k, n) == k.expiry.v > n \/ k.status = "approved"

\* The ticket a sweep keeps.
TicketLive(k, n) == k.expiry.v > n

\* strptime(t["expiry"], "%Y-%m-%d %H:%M:%S") raises on any other text; the
\* exception is not caught and leaves the engine before any save.
SweepRaises(tks) == \E i \in 1..Len(tks) : ~Parses(tks[i].expiry, "sec")

\* An engine that writes the three collections at every run.
EngineSavesAlways(bks, txs, tks, s2, kept) ==
    [raised |-> SweepRaises(tks),
     books |-> IF SweepRaises(tks) THEN bks ELSE s2.books,
     transactions |-> IF SweepRaises(tks) THEN txs ELSE s2.txs,
     tickets |-> kept,
     changes_made |-> ~SweepRaises(tks),
     tickets_saved |-> ~SweepRaises(tks)]

\* The saves at the end of the engine, given the outcome s2 of steps 1 and 1.1
\* and the tickets the sweep keeps.  raised: an uncaught exception left the
\* engine before any save.
EngineSaves(bks, txs, tks, s2, kept) ==
    IF SweepRaises(tks)
    THEN [raised |-> TRUE, books |-> bks, transactions |-> txs,
          tickets |-> tks, changes_made |-> FALSE, tickets_saved |-> FALSE]
    ELSE [raised |-> FALSE,
          books |-> IF s2.changed THEN s2.books ELSE bks,
          transactions |-> IF s2.changed THEN s2.txs ELSE txs,
          tickets |-> IF Len(kept) # Len(tks) THEN kept ELSE tks,
          changes_made |-> s2.changed,
          tickets_saved |-> Len(kept) # Len(tks)]

\* Steps 1.1 and 2, given the outcome s1 of step 1.
EngineAfterExpiry(bks, txs, tks, n, s1) ==
    LET LAMBDA_L(k) == TicketLive(k, n)
    IN  EngineSaves(bks, txs, tks,
          SyncOverdue(1,
            [books |-> s1.books,
             txs |-> IF Len(s1.active) # Len(txs) THEN s1.active ELSE txs,
             changed |-> s1.changed \/ Len(s1.active) # Len(txs)], n),
          IF SweepRaises(tks) THEN tks ELSE SelectSeq(tks, LAMBDA_L))

\* The engine on loaded collections: what it leaves in the store.
RunAutoSyncEngine(bks, txs, tks, n) ==
    EngineAfterExpiry(bks, txs, tks, n,
      SyncReservations(txs, 1,
        [books |-> bks, active |-> <<>>, changed |-> FALSE], n))

(***************************************************************************)
(* api_reserve                                                             *)
(***************************************************************************)
\* A reservation the member holds (the filter of active_reservations).
IsActiveReservation(t, s_id) == t.school_id = s_id /\ t.status = "Reserved"

\* A reserve that forgets to look at the book's status.
BookOfAnyStatus(b, b_no) == b.book_no = b_no

\* A reserve that takes any book that is not on loan.
BookNotBorrowed(b, b_no) == b.book_no = b_no /\ b.status # "Borrowed"

\* The book a reserve takes.
BookAvailable(b, b_no) == b.book_no = b_no /\ b.status = "Available"

\* A quota guard that lets the member go one past the cap.
QuotaPassed(active) == Len(active) > MaxActiveReservations

\* len(active_reservations) >= 5
QuotaReached(active) == Len(active) >= MaxActiveReservations

\* An expiry left at 00:00:00 of the pickup day.
ReservationExpiryAtMidnight(pickup, n) ==
    IF Truthy(pickup) /\ Parses(pickup, "day")
    THEN StrfSec(pickup.v)
    ELSE StrfSec(n + ReservationMinutes * MinuteSecs)

\* reservation_expiry: end of the pickup day when pickup_date is non-empty
\* and parses as "%Y-%m-%d", now + 30 minutes otherwise.
ReservationExpiry(pickup, n) ==
    IF Truthy(pickup) /\ Parses(pickup, "day")
    THEN StrfSec(pickup.v + 23 * 60 * MinuteSecs + 59 * MinuteSecs + 59)
    ELSE StrfSec(n + ReservationMinutes * MinuteSecs)

PickupDate(pickup) ==
    IF Truthy(pickup) /\ Parses(pickup, "day") THEN StrfDay(pickup.v) ELSE EmptyV

NewReservation(b_no, s_id, pickup, n) ==
    [book_no |-> b_no,
     school_id |-> s_id,
     status |-> "Reserved",
     date |-> StrfMin(n),
     reservation_start |-> StrfSec(n),
     reservation_expiry |-> ReservationExpiry(pickup, n),
     expiry |-> ReservationExpiry(pickup, n),
     pickup_date |-> PickupDate(pickup),
     reserved_at |-> StrfSec(n),
     borrow_date |-> NoneV,
     return_date |-> NoneV]

\* A reserve that looks for an Available book before it looks at the member.
ReserveAvailabilityFirst(after, n, b_no, s_id, pickup, active, j) ==
    IF j = 0
    THEN [result |-> "Unavailable", db |-> after]
    ELSE IF \E i \in 1..Len(active) : active[i].book_no = b_no
    THEN [result |-> "DuplicateReservation", db |-> after]
    ELSE IF Len(active) >= MaxActiveReservations
    THEN [result |-> "QuotaExceeded", db |-> after]
    ELSE [result |-> "ok",
          db |-> [after EXCEPT
                    !.books[j].status = "Reserved",
                    !.transactions =
                        Append(@, NewReservation(b_no, s_id, pickup, n))]]

\* The guards and the reservation, on the store the engine left: active is
\* active_reservations and j the first book the loop takes (0: none).
ReserveGuards(after, n, b_no, s_id, pickup, active, j) ==
    IF \E i \in 1..Len(active) : active[i].book_no = b_no
    THEN [result |-> "DuplicateReservation", db |-> after]
    ELSE IF QuotaReached(active)
    THEN [result |-> "QuotaExceeded", db |-> after]
    ELSE IF j = 0
    THEN [result |-> "Unavailable", db |-> after]
    ELSE [result |-> "ok",
          db |-> [after EXCEPT
                    !.books[j].status = "Reserved",
                    !.transactions =
                        Append(@, NewReservation(b_no, s_id, pickup, n))]]

\* A reserve whose rejections answer before what the engine changed is saved.
ReserveAfterSyncUnsaved(db, n, b_no, s_id, pickup, sync) ==
    LET LAMBDA_A(t) == IsActiveReservation(t, s_id)
        r == ReserveGuards(
               [books |-> sync.books, transactions |-> sync.transactions,
                tickets |-> sync.tickets],
               n, b_no, s_id, pickup,
               SelectSeq(sync.transactions, LAMBDA_A),
               FirstIndex({j \in 1..Len(sync.books) :
                             BookAvailable(sync.books[j], b_no)}))
    IN  IF sync.raised \/ r.result # "ok"
        THEN [result |-> IF sync.raised THEN "error" ELSE r.result, db |-> db]
        ELSE r

ReserveAfterSync(db, n, b_no, s_id, pickup, sync) ==
    LET LAMBDA_A(t) == IsActiveReservation(t, s_id)
    IN  IF sync.raised
        THEN [result |-> "error", db |-> db]
        ELSE ReserveGuards(
               [books |-> sync.books, transactions |-> sync.transactions,
                tickets |-> sync.tickets],
               n, b_no, s_id, pickup,
               SelectSeq(sync.transactions, LAMBDA_A),
               FirstIndex({j \in 1..Len(sync.books) :
                             BookAvailable(sync.books[j], b_no)}))

\* The handler on the store db = [books, transactions, tickets]: the result
\* it reports and the store it leaves.
ApiReserve(db, n, b_no, sid_raw, pickup) ==
    ReserveAfterSync(db, n, b_no, StripLower(sid_raw), pickup,
      RunAutoSyncEngine(db.books, db.transactions, db.tickets, n))

(***************************************************************************)
(* api_process_trans                                                       *)
(***************************************************************************)
\* A borrow that takes the reservation of any member.
HoldsReservationOfAnyone(t, b_no, s_id) ==
    t.book_no = b_no /\ t.status = "Reserved"

\* The reservation a borrow converts.
HoldsReservation(t, b_no, s_id) ==
    t.book_no = b_no /\ t.school_id = s_id /\ t.status = "Reserved"

\* not target_book or not reservation or target_book.status != "Reserved"
BorrowRejected(bks, jb, jt) ==
    jb = 0 \/ jt = 0 \/ bks[jb].status # "Reserved"

\* A return that closes the loans of the book and not its reservations.
ReturnClosesLoans(t, b_no) ==
    t.book_no = b_no /\ t.status \in {"Borrowed", "Unreturned"}

\* A return that stamps every transaction of the book, the closed ones too.
ReturnClosesAgain(t, b_no) == t.book_no = b_no

\* The transactions a return closes.
ReturnCloses(t, b_no) == t.book_no = b_no /\ t.status \in ActiveStatuses

\* A return that leaves an overdue book as it is.
ReturnBooksKeepingOverdue(bks, b_no) ==
    [i \in 1..Len(bks) |->
        IF bks[i].book_no = b_no /\ bks[i].status # "Unreturned"
        THEN [bks[i] EXCEPT !.status = "Available"] ELSE bks[i]]

ReturnBooks(bks, b_no) ==
    [i \in 1..Len(bks) |->
        IF bks[i].book_no = b_no
        THEN [bks[i] EXCEPT !.status = "Available"] ELSE bks[i]]

ReturnTransactions(txs, b_no, n) ==
    [i \in 1..Len(txs) |->
        IF ReturnCloses(txs[i], b_no)
        THEN [txs[i] EXCEPT !.status = "Returned", !.return_date = StrfMin(n)]
        ELSE txs[i]]

\* A borrow that leaves the reservation's expiry on the loan.
BorrowedKeepingExpiry(t, return_date, n) ==
    [t EXCEPT !.status = "Borrowed",
              !.borrow_date = StrfMin(n),
              !.return_date = return_date,
              !.date = StrfMin(n),
              !.reservation_start = NoneV]

BorrowedTransaction(t, return_date, n) ==
    [t EXCEPT !.status = "Borrowed",
              !.borrow_date = StrfMin(n),
              !.return_date = return_date,
              !.date = StrfMin(n),
              !.reservation_expiry = NoneV,
              !.reservation_start = NoneV,
              !.expiry = NoneV]

\* The handler given jb, the index of target_book, and jt, the index of
\* reservation (0: None).
ProcessTrans(db, n, b_no, action, return_date, jb, jt) ==
    IF action = "return"
    THEN [result |-> "ok",
          db |-> [db EXCEPT
                    !.books = ReturnBooks(@, b_no),
                    !.transactions = ReturnTransactions(@, b_no, n)]]
    ELSE IF action = "borrow"
    THEN IF ~Truthy(return_date)
         THEN [result |-> "DateRequired", db |-> db]
         ELSE IF ~Parses(return_date, "day")
         THEN [result |-> "InvalidDate", db |-> db]
         ELSE IF BorrowRejected(db.books, jb, jt)
         THEN [result |-> "NotReserved", db |-> db]
         ELSE [result |-> "ok",
               db |-> [db EXCEPT
                         !.transactions[jt] =
                             BorrowedTransaction(@, return_date, n),
                         !.books[jb].status = "Borrowed"]]
    ELSE [result |-> "ok", db |-> db]

\* A handler that runs the engine before it looks at the request.
ApiProcessTransAfterSync(db, n, b_no, action, sid_raw, return_date) ==
    LET sync == RunAutoSyncEngine(db.books, db.transactions, db.tickets, n)
        after == [books |-> sync.books, transactions |-> sync.transactions,
                  tickets |-> sync.tickets]
    IN  ProcessTrans(after, n, b_no, action, return_date,
          FirstIndex({j \in 1..Len(after.books) : after.books[j].book_no = b_no}),
          FirstIndex({j \in 1..Len(after.transactions) :
                        HoldsReservation(after.transactions[j], b_no,
                                         StripLower(sid_raw))}))

ApiProcessTrans(db, n, b_no, action, sid_raw, return_date) ==
    ProcessTrans(db, n, b_no, action, return_date,
      FirstIndex({j \in 1..Len(db.books) : db.books[j].book_no = b_no}),
      FirstIndex({j \in 1..Len(db.transactions) :
                    HoldsReservation(db.transactions[j], b_no, StripLower(sid_raw))}))

(***************************************************************************)
(* Password-reset tickets: api_request_reset, api_approve_ticket,          *)
(* api_finalize_reset                                                      *)
(***************************************************************************)
\* The code of a pending ticket, and the code of a request that carries none:
\* Python's None.
NoCode == "None"

\* find_any_user: admins first, then users, stored ids normalised.
FindAnyUser(adm, usr, sid) ==
    LET s_id == StripLower(sid)
    IN  /\ s_id # ""
        /\ \/ \E i \in 1..Len(adm) : StripLower(adm[i].school_id) = s_id
           \/ \E i \in 1..Len(usr) : StripLower(usr[i].school_id) = s_id

\* A ticket that lives as long as a reservation.
NewTicketOfHalfAnHour(s_id, n) ==
    [school_id |-> s_id,
     status |-> "pending",
     code |-> NoCode,
     expiry |-> StrfSec(n + ReservationMinutes * MinuteSecs)]

NewTicket(s_id, n) ==
    [school_id |-> s_id,
     status |-> "pending",
     code |-> NoCode,
     expiry |-> StrfSec(n + TicketMinutes * MinuteSecs)]

\* A request that does not clean the old requests of the identity.
WithOldTickets(tks, s_id) == tks

\* [t for t in tickets if t["school_id"] != s_id]
WithoutTicketsOf(tks, s_id) ==
    LET LAMBDA_K(k) == k.school_id # s_id
    IN  SelectSeq(tks, LAMBDA_K)

ApiRequestReset(tks, usr, adm, n, sid_raw) ==
    LET s_id == StripLower(sid_raw)
    IN  IF ~FindAnyUser(adm, usr, s_id)
        THEN [result |-> "IdentityNotFound", tickets |-> tks]
        ELSE [result |-> "ok",
              tickets |-> Append(WithoutTicketsOf(tks, s_id), NewTicket(s_id, n))]

\* The approval, given the index j of the first ticket whose school_id equals
\* the request's (0: none).
ApproveAt(tks, j, code) ==
    IF j = 0
    THEN [result |-> "NotFound", tickets |-> tks]
    ELSE [result |-> "ok",
          tickets |-> [tks EXCEPT ![j].status = "approved", ![j].code = code]]

ApiApproveTicket(tks, sid_raw, code) ==
    ApproveAt(tks, FirstIndex({j \in 1..Len(tks) : tks[j].school_id = sid_raw}),
              code)

\* A finalize that takes the member's ticket whatever the code.
TicketOfMember(k, s_id, code) == k.school_id = s_id

\* The ticket a finalize consumes.
TicketMatches(k, s_id, code) == k.school_id = s_id /\ k.code = code

\* The registry after the password loop: every record of the identity.
SetPassword(reg, s_id, new_pwd) ==
    [i \in 1..Len(reg) |->
        IF reg[i].school_id = s_id
        THEN [reg[i] EXCEPT !.password = new_pwd] ELSE reg[i]]

\* The finalize, given the index j of the ticket found (0: None).
FinalizeAt(tks, usr, adm, s_id, new_pwd, j) ==
    IF j = 0
    THEN [result |-> "InvalidOrExpiredCode",
          tickets |-> tks, users |-> usr, admins |-> adm]
    ELSE [result |-> "ok",
          tickets |-> WithoutTicketsOf(tks, s_id),
          users |-> SetPassword(usr, s_id, new_pwd),
          admins |-> SetPassword(adm, s_id, new_pwd)]

ApiFinalizeReset(tks, usr, adm, sid_raw, code, new_pwd) ==
    FinalizeAt(tks, usr, adm, StripLower(sid_raw), new_pwd,
      FirstIndex({j \in 1..Len(tks) :
                    TicketMatches(tks[j], StripLower(sid_raw), code)}))

(***************************************************************************)
(* api_delete_member                                                       *)
(***************************************************************************)
\* The registry without the records of the identity (stored ids normalised
\* for the comparison).
WithoutMember(reg, school_id) ==
    LET LAMBDA_R(r) == StripLower(r.school_id) # school_id
    IN  SelectSeq(reg, LAMBDA_R)

\* The delete on the registry db_key names, given what the filter keeps.
DeleteFrom(usr, adm, db_key, records, filtered) ==
    IF Len(filtered) = Len(records)
    THEN [result |-> "MemberNotFound", users |-> usr, admins |-> adm]
    ELSE [result |-> "ok",
          users |-> IF db_key = "users" THEN filtered ELSE usr,
          admins |-> IF db_key = "admins" THEN filtered ELSE adm]

ApiDeleteMember(usr, adm, sid_raw, target_type) ==
    IF StripLower(sid_raw) = ""
    THEN [result |-> "MissingId", users |-> usr, admins |-> adm]
    ELSE IF target_type = "admin"
    THEN DeleteFrom(usr, adm, "admins", adm, WithoutMember(adm, StripLower(sid_raw)))
    ELSE DeleteFrom(usr, adm, "users", usr, WithoutMember(usr, StripLower(sid_raw)))

(***************************************************************************)
(* The state machine.  One action per handler, each the whole handler.     *)
(* calls counts the calls made (a clock advance included), op records the  *)
(* last call (its name, arguments and result) and prev the store and the   *)
(* clock just before it, the name of the call before it, and whether that  *)
(* call changed the store.                                                 *)
(***************************************************************************)
Store == [books |-> books, transactions |-> transactions, tickets |-> tickets]

Snapshot ==
    [books |-> books, transactions |-> transactions, tickets |-> tickets,
     users |-> users, admins |-> admins, now |-> now, name |-> op.name,
     changed |-> <<books, transactions, tickets>> #
                 <<prev.books, prev.transactions, prev.tickets>>]

Call(name, book_no, school_id, date, code, pwd, result) ==
    [name |-> name, book_no |-> book_no, school_id |-> school_id,
     date |-> date, code |-> code, pwd |-> pwd, result |-> result]

NoCall == Call("init", "", "", NoneV, NoCode, "", "")

Book(b_no, status) == [book_no |-> b_no, status |-> status]
Member(s_id, pwd) == [school_id |-> s_id, password |-> pwd]

\* Inputs of the calls.
BookNoInputs == {"B1", "B2"}
SchoolIdInputs == {"Alice", "bob"}
PickupInputs == {EmptyV}
ReturnDateInputs == {BadV, StrfDay(0), StrfDay(StartNow)}
ClockJumps == {ReservationMinutes * MinuteSecs, DaySecs}

TicketIdInputs == {"Alice", "admin", "ghost"}
CodeInputs == {NoCode, "K7Q2ZD", "M4T9XA"}
PasswordInputs == {"pw1"}
ApproveIdInputs == {"alice", "admin", "Alice"}
TicketClockJumps == {TicketMinutes * MinuteSecs, ReservationMinutes * MinuteSecs}

\* What every call does to the bookkeeping of the model.
Noted(call, cap) ==
    /\ calls < cap
    /\ calls' = calls + 1
    /\ op' = call
    /\ prev' = Snapshot

\* A call made with a session that is live: ACTIVE_SESSIONS is as it was.
Recorded(call, cap) ==
    /\ Noted(call, cap)
    /\ UNCHANGED <<sessions, logins>>

Reserve(BN, SID, PK, cap) ==
    \E b_no \in BN, sid \in SID, pickup \in PK :
      \E r \in {ApiReserve(Store, now, b_no, sid, pickup)} :
          /\ Recorded(Call("reserve", b_no, sid, pickup, NoCode, "", r.result), cap)
          /\ books' = r.db.books
          /\ transactions' = r.db.transactions
          /\ tickets' = r.db.tickets
          /\ UNCHANGED <<users, admins, now, pc, loc>>

Borrow(BN, SID, RD, cap) ==
    \E b_no \in BN, sid \in SID, return_date \in RD :
      \E r \in {ApiProcessTrans(Store, now, b_no, "borrow", sid, return_date)} :
          /\ Recorded(Call("borrow", b_no, sid, return_date, NoCode, "", r.result), cap)
          /\ books' = r.db.books
          /\ transactions' = r.db.transactions
          /\ UNCHANGED <<tickets, users, admins, now, pc, loc>>

Return(BN, cap) ==
    \E b_no \in BN :
      \E r \in {ApiProcessTrans(Store, now, b_no, "return", "", EmptyV)} :
          /\ Recorded(Call("return", b_no, "", NoneV, NoCode, "", r.result), cap)
          /\ books' = r.db.books
          /\ transactions' = r.db.transactions
          /\ UNCHANGED <<tickets, users, admins, now, pc, loc>>

\* api_get_books / api_get_transactions: a listing request runs the engine.
Reconcile(cap) ==
    \E r \in {RunAutoSyncEngine(books, transactions, tickets, now)} :
        /\ Recorded(Call("reconcile", "", "", NoneV, NoCode, "",
                         IF r.raised THEN "error" ELSE "ok"), cap)
        /\ books' = r.books
        /\ transactions' = r.transactions
        /\ tickets' = r.tickets
        /\ UNCHANGED <<users, admins, now, pc, loc>>

\* datetime.now() is later at a later call.
Tick(J, cap) ==
    \E d \in J :
      /\ Recorded(Call("tick", "", "", NoneV, NoCode, "", ""), cap)
      /\ now' = now + d
      /\ UNCHANGED <<books, transactions, tickets, users, admins, pc, loc>>

RequestReset(SID, cap) ==
    \E sid \in SID :
      \E r \in {ApiRequestReset(tickets, users, admins, now, sid)} :
          /\ Recorded(Call("request", "", sid, NoneV, NoCode, "", r.result), cap)
          /\ tickets' = r.tickets
          /\ UNCHANGED <<books, transactions, users, admins, now, pc, loc>>

\* The code is random.choices over 36 characters: any code of the model.
ApproveTicket(SID, CD, cap) ==
    \E sid \in SID, code \in CD \ {NoCode} :
      \E r \in {ApiApproveTicket(tickets, sid, code)} :
          /\ Recorded(Call("approve", "", sid, NoneV, code, "", r.result), cap)
          /\ tickets' = r.tickets
          /\ UNCHANGED <<books, transactions, users, admins, now, pc, loc>>

FinalizeReset(SID, CD, PW, cap) ==
    \E sid \in SID, code \in CD, pwd \in PW :
      \E r \in {ApiFinalizeReset(tickets, users, admins, sid, code, pwd)} :
          /\ Recorded(Call("finalize", "", sid, NoneV, code, pwd, r.result), cap)
          /\ tickets' = r.tickets
          /\ users' = r.users
          /\ admins' = r.admins
          /\ UNCHANGED <<books, transactions, now, pc, loc>>

(***************************************************************************)
(* Spec: the circulation calls, one at a time, from a library of two       *)
(* available books and no transaction.                                     *)
(***************************************************************************)
InitRegistry ==
    /\ users = <<Member("alice", "pw0"), Member("bob", "pw0")>>
    /\ admins = <<Member("admin", "pw0")>>

InitIdle ==
    /\ now = StartNow
    /\ calls = 0
    /\ op = NoCall
    /\ pc = <<>>
    /\ loc = <<>>
    /\ sessions = <<>>
    /\ logins = <<>>

InitPrev ==
    prev = [books |-> books, transactions |-> transactions, tickets |-> tickets,
            users |-> users, admins |-> admins, now |-> now, name |-> "init",
            changed |-> FALSE]

Init ==
    /\ books = <<Book("B1", "Available"), Book("B2", "Available")>>
    /\ transactions = <<>>
    /\ tickets = <<>>
    /\ InitRegistry
    /\ InitIdle
    /\ InitPrev

Next ==
    \/ Reserve(BookNoInputs, SchoolIdInputs, PickupInputs, MaxCalls)
    \/ Borrow(BookNoInputs, SchoolIdInputs, ReturnDateInputs, MaxCalls)
    \/ Return(BookNoInputs, MaxCalls)
    \/ Reconcile(MaxCalls)
    \/ Tick(ClockJumps, MaxCalls)

Spec == Init /\ [][Next]_vars

(***************************************************************************)
(* Properties of the circulation calls (checked under Spec).               *)
(***************************************************************************)
Range(seq) == {seq[i] : i \in 1..Len(seq)}

IsActive(t) == t.status \in ActiveStatuses

\* C1: after any sequence of reserve, borrow, return and reconcile calls made
\* one at a time from a library with unique book_no values and no active
\* transaction, no book_no has two transactions whose status is Reserved,
\* Borrowed or Unreturned.
C1_OneActivePerBook ==
    \A i, j \in 1..Len(transactions) :
        (/\ i # j
         /\ transactions[i].book_no = transactions[j].book_no
         /\ IsActive(transactions[i]))
        => ~IsActive(transactions[j])

\* A book with a closed transaction and an active one after it, while the
\* other book is held too.
C1_Witness ==
    \E i, j, k \in 1..Len(transactions) :
        /\ i < j
        /\ transactions[i].book_no = transactions[j].book_no
        /\ transactions[i].status = "Returned"
        /\ IsActive(transactions[j])
        /\ transactions[k].book_no # transactions[j].book_no
        /\ IsActive(transactions[k])

\* The state a borrow needs: a Reserved transaction of the pair, and the book
\* Reserved.
BorrowReady(st, b_no, s_id) ==
    /\ \E t \in Range(st.transactions) :
          t.book_no = b_no /\ t.school_id = s_id /\ t.status = "Reserved"
    /\ \E b \in Range(st.books) : b.book_no = b_no /\ b.status = "Reserved"

\* C3 as stated: a borrow succeeds only in a state where the pair holds a
\* Reserved transaction and the book is Reserved, and in every other state it
\* is rejected as NotReserved.
C3_AsStated ==
    op.name = "borrow" =>
        IF BorrowReady(prev, op.book_no, StripLower(op.school_id))
        THEN TRUE
        ELSE op.result = "NotReserved"

\* C3, amended: a borrow succeeds only in a state where the pair holds a
\* Reserved transaction and the book is Reserved; in every other state a borrow
\* whose return_date parses as a bare date is rejected as NotReserved (a
\* missing or malformed return_date is rejected for the date, whatever the
\* state).
C3_BorrowNeedsReservation ==
    op.name = "borrow" =>
        /\ op.result = "ok" =>
              BorrowReady(prev, op.book_no, StripLower(op.school_id))
        /\ (/\ ~BorrowReady(prev, op.book_no, StripLower(op.school_id))
            /\ Parses(op.date, "day"))
           => op.result = "NotReserved"
        /\ ~Parses(op.date, "day") => op.result \in {"DateRequired", "InvalidDate"}

\* A borrow of a book another member has reserved, with a good date, rejected.
C3_Witness ==
    /\ op.name = "borrow"
    /\ op.result = "NotReserved"
    /\ Parses(op.date, "day")
    /\ \E t \in Range(prev.transactions) :
          /\ t.book_no = op.book_no
          /\ t.status = "Reserved"
          /\ t.school_id # StripLower(op.school_id)

\* A Reserved transaction whose expiry parses and lies before the clock.
ExpiredReservation(t, n) ==
    /\ t.status = "Reserved"
    /\ ParsesAny(t.reservation_expiry)
    /\ t.reservation_expiry.v < n

\* C5: one reconcile removes every Reserved transaction whose expiry parses and
\* is strictly earlier than now (none is kept as Expired), and the Reserved book
\* of its book_no is Available afterwards.
C5_ExpiredReservationSwept ==
    op.name = "reconcile" =>
        /\ \A t \in Range(prev.transactions) :
              ExpiredReservation(t, prev.now) =>
                  /\ t \notin Range(transactions)
                  /\ \A i \in 1..Len(prev.books) :
                        (/\ prev.books[i].book_no = t.book_no
                         /\ prev.books[i].status = "Reserved")
                        => /\ books[i].book_no = t.book_no
                           /\ books[i].status = "Available"
        /\ \A t \in Range(transactions) : t.status # "Expired"

\* A reconcile that met an expired reservation of a Reserved book.
C5_Witness ==
    /\ op.name = "reconcile"
    /\ \E t \in Range(prev.transactions) :
          /\ ExpiredReservation(t, prev.now)
          /\ \E b \in Range(prev.books) :
                b.book_no = t.book_no /\ b.status = "Reserved"

\* C6: for a Borrowed transaction with a parsable return_date, reconcile makes
\* the transaction and the book of its book_no Unreturned when the due day is
\* strictly before today, and changes neither when it is not (a due day of
\* today included).
C6_OverdueIffDueDayPassed ==
    op.name = "reconcile" =>
        \A t \in Range(prev.transactions) :
            (t.status = "Borrowed" /\ ParsesAny(t.return_date)) =>
                IF DateOf(t.return_date.v) < DateOf(prev.now)
                THEN /\ [t EXCEPT !.status = "Unreturned"] \in Range(transactions)
                     /\ t \notin Range(transactions)
                     /\ \A i \in 1..Len(prev.books) :
                           prev.books[i].book_no = t.book_no =>
                               books[i] = Book(t.book_no, "Unreturned")
                ELSE /\ t \in Range(transactions)
                     /\ \A i \in 1..Len(prev.books) :
                           prev.books[i].book_no = t.book_no =>
                               books[i] = prev.books[i]

\* A reconcile that met a Borrowed transaction whose due day had passed.
C6_Witness ==
    /\ op.name = "reconcile"
    /\ \E t \in Range(prev.transactions) :
          /\ t.status = "Borrowed"
          /\ ParsesAny(t.return_date)
          /\ DateOf(t.return_date.v) < DateOf(prev.now)
          /\ \E b \in Range(prev.books) :
                b.book_no = t.book_no /\ b.status = "Borrowed"

\* A reconcile that met a Borrowed transaction due today.
C6_WitnessDueToday ==
    /\ op.name = "reconcile"
    /\ \E t \in Range(prev.transactions) :
          /\ t.status = "Borrowed"
          /\ ParsesAny(t.return_date)
          /\ DateOf(t.return_date.v) = DateOf(prev.now)

(***************************************************************************)
(* SpecTicket: the password-reset calls, one at a time, with listing       *)
(* requests and the clock.  The registries hold the identities the         *)
(* registrations stored (normalised); "alice" may be in both registries,   *)
(* as two registrations that raced past find_any_user leave it.            *)
(***************************************************************************)
InitTicket ==
    /\ books = <<Book("B1", "Available"), Book("B2", "Available")>>
    /\ transactions = <<>>
    /\ tickets = <<>>
    /\ users = <<Member("alice", "pw0"), Member("bob", "pw0")>>
    /\ admins \in {<<Member("admin", "pw0")>>,
                   <<Member("admin", "pw0"), Member("alice", "pw0")>>}
    /\ InitIdle
    /\ InitPrev

NextTicket ==
    \/ RequestReset(TicketIdInputs, MaxTicketCalls)
    \/ ApproveTicket(ApproveIdInputs, CodeInputs, MaxTicketCalls)
    \/ FinalizeReset(TicketIdInputs, CodeInputs, PasswordInputs, MaxTicketCalls)
    \/ Reconcile(MaxTicketCalls)
    \/ Tick(TicketClockJumps, MaxTicketCalls)

SpecTicket == InitTicket /\ [][NextTicket]_vars

(***************************************************************************)
(* Properties of the password-reset calls (checked under SpecTicket).      *)
(***************************************************************************)
\* The tickets of an identity in a store.
TicketsOf(tks, s_id) == {k \in Range(tks) : k.school_id = s_id}

PasswordsChanged == users # prev.users \/ admins # prev.admins

\* C8: a finalize whose identity has a ticket that is still pending (code
\* null, never approved since it was requested) is rejected and changes no
\* password, whatever code the request carries, an absent or null code
\* included.
C8_PendingTicketNeverFinalizes ==
    (/\ op.name = "finalize"
     /\ \E k \in TicketsOf(prev.tickets, StripLower(op.school_id)) :
           k.status = "pending")
    => /\ op.result = "InvalidOrExpiredCode"
       /\ ~PasswordsChanged

\* C9: a finalize whose identity and code match a ticket answers success,
\* leaves every members and staff record of the identity with the new password
\* and every other record as it was, and leaves no ticket of the identity, so
\* that the same finalize made again is rejected; a finalize that matches no
\* ticket is rejected and changes no ticket and no password.
C9_FinalizeConsumesTicket ==
    op.name = "finalize" =>
        LET s_id == StripLower(op.school_id)
        IN  IF \E k \in TicketsOf(prev.tickets, s_id) : k.code = op.code
            THEN /\ op.result = "ok"
                 /\ \A i \in 1..Len(users) :
                       users[i] = IF prev.users[i].school_id = s_id
                                  THEN Member(s_id, op.pwd) ELSE prev.users[i]
                 /\ \A i \in 1..Len(admins) :
                       admins[i] = IF prev.admins[i].school_id = s_id
                                   THEN Member(s_id, op.pwd) ELSE prev.admins[i]
                 /\ Len(users) = Len(prev.users)
                 /\ Len(admins) = Len(prev.admins)
                 /\ TicketsOf(tickets, s_id) = {}
                 /\ ApiFinalizeReset(tickets, users, admins,
                                     op.school_id, op.code, op.pwd).result
                        = "InvalidOrExpiredCode"
            ELSE /\ op.result = "InvalidOrExpiredCode"
                 /\ tickets = prev.tickets
                 /\ ~PasswordsChanged

\* A finalize with the code staff issued, for an identity both registries hold.
C9_Witness ==
    /\ op.name = "finalize"
    /\ op.result = "ok"
    /\ op.code # NoCode
    /\ \E i \in 1..Len(users) :
          users[i] = Member("alice", op.pwd) /\ prev.users[i].password # op.pwd
    /\ \E i \in 1..Len(admins) :
          admins[i] = Member("alice", op.pwd) /\ prev.admins[i].password # op.pwd
    /\ prev.name = "approve"

\* C10: a finalize whose identity and code match a ticket whose expiry has
\* passed is rejected, whether or not a sweep has removed the ticket.
C10_ExpiredTicketNeverFinalizes ==
    (/\ op.name = "finalize"
     /\ \E k \in TicketsOf(prev.tickets, StripLower(op.school_id)) :
           k.code = op.code /\ k.expiry.v < prev.now)
    => op.result = "InvalidOrExpiredCode"

(***************************************************************************)
(* SpecQuota: the circulation calls on a library of six books where alice  *)
(* holds the reservations of four or five earlier reserve calls.           *)
(***************************************************************************)
QuotaBooks == <<"B1", "B2", "B3", "B4", "B5", "B6">>
QuotaBookInputs == {"B1", "B5", "B6"}
QuotaPickupInputs == {EmptyV, StrfDay(StartNow)}

InitQuota ==
    /\ \E held \in {MaxActiveReservations - 1, MaxActiveReservations} :
          /\ books = [i \in 1..Len(QuotaBooks) |->
                        Book(QuotaBooks[i],
                             IF i <= held THEN "Reserved" ELSE "Available")]
          /\ transactions = [i \in 1..held |->
                               NewReservation(QuotaBooks[i], "alice", EmptyV, StartNow)]
    /\ tickets = <<>>
    /\ InitRegistry
    /\ InitIdle
    /\ InitPrev

NextQuota ==
    \/ Reserve(QuotaBookInputs, SchoolIdInputs, QuotaPickupInputs, MaxQuotaCalls)
    \/ Borrow(QuotaBookInputs, SchoolIdInputs, ReturnDateInputs, MaxQuotaCalls)
    \/ Return(QuotaBookInputs, MaxQuotaCalls)
    \/ Reconcile(MaxQuotaCalls)
    \/ Tick(ClockJumps, MaxQuotaCalls)

SpecQuota == InitQuota /\ [][NextQuota]_vars

(***************************************************************************)
(* Properties of the quota guard (checked under SpecQuota).                *)
(***************************************************************************)
\* The store the reconcile at the head of the last call left.
Synced == RunAutoSyncEngine(prev.books, prev.transactions, prev.tickets, prev.now)

\* The Reserved transactions the member of the last call held in a list.
HeldBy(txs, s_id) ==
    {i \in 1..Len(txs) : txs[i].school_id = s_id /\ txs[i].status = "Reserved"}

AtQuota ==
    /\ op.name = "reserve"
    /\ Cardinality(HeldBy(Synced.transactions, StripLower(op.school_id)))
          >= MaxActiveReservations

HoldsTarget ==
    \E i \in HeldBy(Synced.transactions, StripLower(op.school_id)) :
        Synced.transactions[i].book_no = op.book_no

NothingReserved ==
    /\ books = Synced.books
    /\ transactions = Synced.transactions

\* C4 as stated: a reserve by a member who holds 5 or more Reserved
\* transactions after the reconcile it runs first is rejected with
\* QuotaExceeded, no transaction is created and no book status changes.
C4_AsStated ==
    AtQuota => op.result = "QuotaExceeded" /\ NothingReserved

\* C4, amended: a reserve by a member who holds 5 or more Reserved
\* transactions after the reconcile it runs first, none of them for the target
\* book_no, is rejected with QuotaExceeded, the target book being Available or
\* not; holding one for the target book_no, it is rejected as a duplicate
\* reservation; either way no transaction is created and no book status
\* changes.
C4_QuotaAfterDuplicateGuard ==
    AtQuota =>
        /\ op.result = IF HoldsTarget THEN "DuplicateReservation" ELSE "QuotaExceeded"
        /\ NothingReserved

\* A member at the cap refused a book that is Available.
C4_Witness ==
    /\ AtQuota
    /\ op.result = "QuotaExceeded"
    /\ \E b \in Range(Synced.books) :
          b.book_no = op.book_no /\ b.status = "Available"

(***************************************************************************)
(* SpecAny: listing requests and the clock on any store of the bounds:     *)
(* book rows that share a book_no, statuses with stray blanks, dates in    *)
(* every format the engine reads and in none, tickets with an expiry that  *)
(* does not parse.                                                          *)
(***************************************************************************)
Tx(b_no, status, reservation_expiry, expiry, return_date) ==
    [book_no |-> b_no,
     school_id |-> "alice",
     status |-> status,
     date |-> StrfMin(0),
     reservation_start |-> StrfSec(0),
     reservation_expiry |-> reservation_expiry,
     expiry |-> expiry,
     pickup_date |-> EmptyV,
     reserved_at |-> StrfSec(0),
     borrow_date |-> NoneV,
     return_date |-> return_date]

AnyBooks ==
    {Book(b_no, status) : b_no \in {"B1", "B2"},
                          status \in {"Available", "Reserved", "Borrowed"}}

AnyTransactions ==
    {Tx("B1", "Reserved", StrfSec(StartNow - 1), StrfSec(StartNow - 1), NoneV),
     Tx("B1", "Reserved", StrfSec(StartNow + 1), StrfSec(StartNow + 1), NoneV),
     Tx("B1", " Reserved", EmptyV, StrfMin(0), NoneV),
     Tx("B2", "Reserved", StrfDay(0), StrfDay(0), NoneV),
     Tx("B2", "Reserved", BadV, StrfSec(0), NoneV),
     Tx("B1", "Borrowed", NoneV, NoneV, StrfDay(0)),
     Tx("B1", "Borrowed", NoneV, NoneV, StrfDay(StartNow)),
     Tx("B2", "Borrowed ", NoneV, NoneV, StrfMin(0))}

AnyTickets ==
    {[school_id |-> "alice", status |-> "pending", code |-> NoCode,
      expiry |-> e] : e \in {StrfSec(StartNow - 1), StrfSec(StartNow + 1), BadV}}

MaxAnyLen == 2

SeqsUpTo(S, n) == UNION {[1..m -> S] : m \in 0..n}

\* Two book rows, of one book_no or of two.
AnyBookRows == {<<b1, b2>> : b1 \in AnyBooks, b2 \in AnyBooks}

InitAny ==
    /\ books \in AnyBookRows
    /\ transactions \in SeqsUpTo(AnyTransactions, MaxAnyLen)
    /\ tickets \in SeqsUpTo(AnyTickets, 1)
    /\ InitRegistry
    /\ InitIdle
    /\ InitPrev

NextAny ==
    \/ Reconcile(MaxAnyCalls)
    \/ Tick({DaySecs}, MaxAnyCalls)

SpecAny == InitAny /\ [][NextAny]_vars

(***************************************************************************)
(* Properties of the engine on any store (checked under SpecAny).          *)
(***************************************************************************)
\* C2: a reconcile that runs right after another, the clock not having moved,
\* leaves books, transactions and tickets exactly as the first one left them.
C2_ReconcileIdempotent ==
    (op.name = "reconcile" /\ prev.name = "reconcile" /\ prev.now = now)
    => /\ books = prev.books
       /\ transactions = prev.transactions
       /\ tickets = prev.tickets

\* A second reconcile after a first one that released a book, marked a loan
\* overdue and swept a ticket.
C2_Witness ==
    /\ op.name = "reconcile"
    /\ prev.name = "reconcile"
    /\ prev.now = now
    /\ prev.changed
    /\ tickets = <<>>
    /\ \E t \in Range(transactions) : t.status = "Unreturned"
    /\ \E b \in Range(books) : b.status = "Available"
    /\ \E b \in Range(books) : b.status = "Unreturned"

(***************************************************************************)
(* SpecTicketConc: two requests in service at a time.  Each ticket handler *)
(* is cut where the code reads a whole collection (get_db) and where it    *)
(* writes one back (save_db); pc is the step a request is at, loc what it  *)
(* has loaded.  The two registry loops of a finalize are one step.         *)
(***************************************************************************)
Procs == {1, 2}

Locals(name, s_id, code, pwd, bks, txs, tks) ==
    [name |-> name, s_id |-> s_id, code |-> code, pwd |-> pwd,
     books |-> bks, transactions |-> txs, tickets |-> tks, overwrote |-> FALSE]

NoLocals == Locals("idle", "", NoCode, "", <<>>, <<>>, <<>>)

ConcRequestIds == {"Alice", "bob", "ghost"}
ConcApproveIds == {"alice"}
ConcFinalizeIds == {"Alice"}
ConcCodes == {NoCode, "K7Q2ZD"}

Started(cap) ==
    calls < cap /\ calls' = calls + 1 /\ UNCHANGED <<op, prev, sessions, logins>>

Goes(p, label, locals) ==
    /\ pc' = [pc EXCEPT ![p] = label]
    /\ loc' = [loc EXCEPT ![p] = locals]

\* The save of a request: back to idle, noting whether the collection written
\* had been written by another request since this one loaded it.
Saved(p) ==
    /\ pc' = [pc EXCEPT ![p] = "idle"]
    /\ loc' = [loc EXCEPT ![p].overwrote = (loc[p].tickets # tickets)]
    /\ UNCHANGED <<calls, op, prev, sessions, logins>>

RequestResetLoad(p, cap) ==
    /\ pc[p] = "idle"
    /\ Started(cap)
    /\ \E sid \in ConcRequestIds :
          IF FindAnyUser(admins, users, StripLower(sid))
          THEN Goes(p, "request_save",
                    Locals("request", sid, NoCode, "", <<>>, <<>>, tickets))
          ELSE Goes(p, "idle", Locals("request", sid, NoCode, "", <<>>, <<>>, <<>>))
    /\ UNCHANGED <<books, transactions, tickets, users, admins, now>>

RequestResetSave(p) ==
    /\ pc[p] = "request_save"
    /\ tickets' = ApiRequestReset(loc[p].tickets, users, admins, now,
                                  loc[p].s_id).tickets
    /\ Saved(p)
    /\ UNCHANGED <<books, transactions, users, admins, now>>

ApproveTicketLoad(p, cap) ==
    /\ pc[p] = "idle"
    /\ Started(cap)
    /\ \E sid \in ConcApproveIds, code \in ConcCodes \ {NoCode} :
          IF ApiApproveTicket(tickets, sid, code).result = "ok"
          THEN Goes(p, "approve_save",
                    Locals("approve", sid, code, "", <<>>, <<>>, tickets))
          ELSE Goes(p, "idle", Locals("approve", sid, code, "", <<>>, <<>>, <<>>))
    /\ UNCHANGED <<books, transactions, tickets, users, admins, now>>

ApproveTicketSave(p) ==
    /\ pc[p] = "approve_save"
    /\ tickets' = ApiApproveTicket(loc[p].tickets, loc[p].s_id, loc[p].code).tickets
    /\ Saved(p)
    /\ UNCHANGED <<books, transactions, users, admins, now>>

FinalizeResetLoad(p, cap) ==
    /\ pc[p] = "idle"
    /\ Started(cap)
    /\ \E sid \in ConcFinalizeIds, code \in ConcCodes, pwd \in PasswordInputs :
          IF ApiFinalizeReset(tickets, users, admins, sid, code, pwd).result = "ok"
          THEN Goes(p, "finalize_registries",
                    Locals("finalize", sid, code, pwd, <<>>, <<>>, tickets))
          ELSE Goes(p, "idle", Locals("finalize", sid, code, pwd, <<>>, <<>>, <<>>))
    /\ UNCHANGED <<books, transactions, tickets, users, admins, now>>

FinalizeResetRegistries(p) ==
    /\ pc[p] = "finalize_registries"
    /\ users' = SetPassword(users, StripLower(loc[p].s_id), loc[p].pwd)
    /\ admins' = SetPassword(admins, StripLower(loc[p].s_id), loc[p].pwd)
    /\ pc' = [pc EXCEPT ![p] = "finalize_save"]
    /\ UNCHANGED <<books, transactions, tickets, now, calls, op, prev, loc,
                   sessions, logins>>

FinalizeResetSave(p) ==
    /\ pc[p] = "finalize_save"
    /\ tickets' = WithoutTicketsOf(loc[p].tickets, StripLower(loc[p].s_id))
    /\ Saved(p)
    /\ UNCHANGED <<books, transactions, users, admins, now>>

ReconcileLoad(p, cap) ==
    /\ pc[p] = "idle"
    /\ Started(cap)
    /\ Goes(p, "reconcile_save",
            Locals("reconcile", "", NoCode, "", books, transactions, tickets))
    /\ UNCHANGED <<books, transactions, tickets, users, admins, now>>

ReconcileSave(p) ==
    /\ pc[p] = "reconcile_save"
    /\ \E r \in {RunAutoSyncEngine(loc[p].books, loc[p].transactions,
                                   loc[p].tickets, now)} :
          /\ tickets' = IF r.tickets_saved THEN r.tickets ELSE tickets
          /\ books' = IF r.changes_made THEN r.books ELSE books
          /\ transactions' = IF r.changes_made THEN r.transactions ELSE transactions
    /\ Saved(p)
    /\ UNCHANGED <<users, admins, now>>

ConcTick(cap) ==
    /\ Started(cap)
    /\ now' = now + ReservationMinutes * MinuteSecs
    /\ UNCHANGED <<books, transactions, tickets, users, admins, pc, loc>>

InitTicketConc ==
    /\ books = <<Book("B1", "Available"), Book("B2", "Available")>>
    /\ transactions = <<>>
    /\ tickets = <<>>
    /\ InitRegistry
    /\ now = StartNow
    /\ calls = 0
    /\ op = NoCall
    /\ pc = [p \in Procs |-> "idle"]
    /\ loc = [p \in Procs |-> NoLocals]
    /\ sessions = <<>>
    /\ logins = <<>>
    /\ InitPrev

NextTicketConc ==
    \/ \E p \in Procs : RequestResetLoad(p, MaxConcCalls)
    \/ \E p \in Procs : RequestResetSave(p)
    \/ \E p \in Procs : ApproveTicketLoad(p, MaxConcCalls)
    \/ \E p \in Procs : ApproveTicketSave(p)
    \/ \E p \in Procs : FinalizeResetLoad(p, MaxConcCalls)
    \/ \E p \in Procs : FinalizeResetRegistries(p)
    \/ \E p \in Procs : FinalizeResetSave(p)
    \/ \E p \in Procs : ReconcileLoad(p, MaxConcCalls)
    \/ \E p \in Procs : ReconcileSave(p)
    \/ ConcTick(MaxConcCalls)

SpecTicketConc == InitTicketConc /\ [][NextTicketConc]_vars

(***************************************************************************)
(* Properties of the interleaved ticket calls (checked under               *)
(* SpecTicketConc).                                                        *)
(***************************************************************************)
\* C7: in every reachable state, the loads and saves of concurrent request,
\* approve, finalize and reconcile calls interleaved, the tickets hold at most
\* one ticket per school_id.
C7_OneTicketPerIdentity ==
    \A i, j \in 1..Len(tickets) :
        i # j => tickets[i].school_id # tickets[j].school_id

\* Two requests of one identity that both loaded before either saved, both
\* done: the second save wrote over the first.
C7_Witness ==
    /\ \A p \in Procs : pc[p] = "idle" /\ loc[p].name = "request"
    /\ \E p, q \in Procs :
          /\ p # q
          /\ StripLower(loc[p].s_id) = StripLower(loc[q].s_id)
          /\ loc[p].overwrote
          /\ loc[q].tickets = loc[p].tickets
    /\ tickets # <<>>

(***************************************************************************)
(* SpecMember: the password-reset calls and the removal of members, one    *)
(* call at a time.                                                         *)
(***************************************************************************)
MemberIdInputs == {"Alice", "admin"}
MemberTypeInputs == {"student", "admin"}
MemberCodeInputs == {NoCode, "K7Q2ZD"}

DeleteMember(SID, TY, cap) ==
    \E sid \in SID, target_type \in TY :
      \E r \in {ApiDeleteMember(users, admins, sid, target_type)} :
          /\ Recorded(Call("delete_member", "", sid, NoneV, NoCode, "", r.result), cap)
          /\ users' = r.users
          /\ admins' = r.admins
          /\ UNCHANGED <<books, transactions, tickets, now, pc, loc>>

NextMember ==
    \/ RequestReset(MemberIdInputs, MaxMemberCalls)
    \/ ApproveTicket(ApproveIdInputs, MemberCodeInputs, MaxMemberCalls)
    \/ FinalizeReset(MemberIdInputs, MemberCodeInputs, PasswordInputs, MaxMemberCalls)
    \/ DeleteMember(MemberIdInputs, MemberTypeInputs, MaxMemberCalls)

SpecMember == InitTicket /\ [][NextMember]_vars

\* The records of an identity in a registry.
RecordsOf(reg, s_id) == {i \in 1..Len(reg) : reg[i].school_id = s_id}

\* C11: every finalize either updates the password in every registry that
\* holds the identity (one at least) and deletes the ticket, or changes
\* nothing: none deletes the ticket without a password update, none updates
\* a password and leaves the ticket.
C11_FinalizeAllOrNothing ==
    op.name = "finalize" =>
        LET s_id == StripLower(op.school_id)
        IN  \/ /\ RecordsOf(prev.users, s_id) \cup RecordsOf(prev.admins, s_id) # {}
               /\ users = SetPassword(prev.users, s_id, op.pwd)
               /\ admins = SetPassword(prev.admins, s_id, op.pwd)
               /\ TicketsOf(prev.tickets, s_id) # {}
               /\ TicketsOf(tickets, s_id) = {}
            \/ /\ tickets = prev.tickets
               /\ users = prev.users
               /\ admins = prev.admins

(***************************************************************************)
(* SpecPickup: the circulation calls with every kind of pickup_date: none, *)
(* malformed, today, tomorrow.                                             *)
(***************************************************************************)
AllPickupInputs == {EmptyV, BadV, StrfDay(StartNow), StrfDay(StartNow + DaySecs)}
DueDateInputs == {StrfDay(StartNow)}

NextPickup ==
    \/ Reserve(BookNoInputs, SchoolIdInputs, AllPickupInputs, MaxPickupCalls)
    \/ Borrow(BookNoInputs, SchoolIdInputs, DueDateInputs, MaxPickupCalls)
    \/ Return(BookNoInputs, MaxPickupCalls)
    \/ Reconcile(MaxPickupCalls)
    \/ Tick(ClockJumps, MaxPickupCalls)

SpecPickup == Init /\ [][NextPickup]_vars

\* The indices of the Available rows of a book_no.
AvailableRows(bks, b_no) ==
    {j \in 1..Len(bks) : bks[j].book_no = b_no /\ bks[j].status = "Available"}

\* The expiry a reservation made at n with the pickup_date d must carry.
ExpectedExpiry(d, n) ==
    IF d.k = "day" THEN StrfSec(d.v + DaySecs - 1)
    ELSE StrfSec(n + 30 * 60)

\* C12: a successful reserve sets the book Reserved and appends exactly one
\* transaction, Reserved, of the book_no and the member, whose
\* reservation_expiry is 23:59:59 of the pickup day when the pickup_date is a
\* valid bare date and now + 30 minutes otherwise (a malformed pickup_date
\* included); a reserve no guard rejects, of a book that is not Available,
\* answers Unavailable.
C12_ReserveCreatesReservation ==
    op.name = "reserve" =>
        /\ op.result = "ok" =>
              /\ Len(transactions) = Len(Synced.transactions) + 1
              /\ SubSeq(transactions, 1, Len(Synced.transactions)) = Synced.transactions
              /\ LET t == transactions[Len(transactions)]
                 IN  /\ t.status = "Reserved"
                     /\ t.book_no = op.book_no
                     /\ t.school_id = StripLower(op.school_id)
                     /\ t.reservation_start = StrfSec(prev.now)
                     /\ t.reservation_expiry = ExpectedExpiry(op.date, prev.now)
              /\ \E j \in AvailableRows(Synced.books, op.book_no) :
                    books = [Synced.books EXCEPT ![j].status = "Reserved"]
        /\ (/\ AvailableRows(Synced.books, op.book_no) = {}
            /\ ~HoldsTarget
            /\ ~AtQuota)
           => op.result = "Unavailable" /\ NothingReserved

\* A reserve with a pickup_date of tomorrow, made after one without a valid
\* pickup_date: the first expires half an hour after it was made, the second
\* at the end of tomorrow.
C12_Witness ==
    /\ op.name = "reserve"
    /\ op.result = "ok"
    /\ op.date = StrfDay(StartNow + DaySecs)
    /\ Len(transactions) = 2
    /\ transactions[1].reservation_expiry = StrfSec(StartNow + 30 * 60)
    /\ transactions[1].pickup_date = EmptyV
    /\ transactions[2].reservation_expiry.v > StartNow + DaySecs

\* A reserve of a book another member holds, answered Unavailable.
C12_WitnessUnavailable ==
    /\ op.name = "reserve"
    /\ op.result = "Unavailable"
    /\ \E b \in Range(Synced.books) : b.book_no = op.book_no /\ b.status = "Reserved"

(***************************************************************************)
(* Properties of borrow and return (checked under Spec).                   *)
(***************************************************************************)
\* A stored timestamp that denotes the instant n to the minute.
StampsMinuteOf(d, n) == d.k = "min" /\ d.v <= n /\ n < d.v + 60

\* C13: a successful borrow adds and removes no transaction; the Reserved
\* transaction of the pair becomes Borrowed with borrow_date now, return_date
\* the due date supplied and reservation_expiry, expiry and reservation_start
\* cleared; the book becomes Borrowed; every other book and transaction is as
\* it was.
C13_BorrowMutatesInPlace ==
    (op.name = "borrow" /\ op.result = "ok") =>
        /\ Len(transactions) = Len(prev.transactions)
        /\ \E i \in 1..Len(prev.transactions) :
              /\ prev.transactions[i].status = "Reserved"
              /\ prev.transactions[i].book_no = op.book_no
              /\ prev.transactions[i].school_id = StripLower(op.school_id)
              /\ transactions[i].status = "Borrowed"
              /\ StampsMinuteOf(transactions[i].borrow_date, prev.now)
              /\ transactions[i].return_date = op.date
              /\ transactions[i].reservation_expiry = NoneV
              /\ transactions[i].expiry = NoneV
              /\ transactions[i].reservation_start = NoneV
              /\ transactions[i].book_no = op.book_no
              /\ transactions[i].school_id = StripLower(op.school_id)
              /\ \A k \in 1..Len(transactions) :
                    k # i => transactions[k] = prev.transactions[k]
        /\ \E j \in 1..Len(prev.books) :
              /\ prev.books[j] = Book(op.book_no, "Reserved")
              /\ books = [prev.books EXCEPT ![j].status = "Borrowed"]

\* A successful borrow of one book while the other book is reserved too.
C13_Witness ==
    /\ op.name = "borrow"
    /\ op.result = "ok"
    /\ Len(transactions) = 2
    /\ \E i, k \in 1..2 :
          /\ transactions[i].status = "Borrowed"
          /\ transactions[i].book_no = op.book_no
          /\ transactions[k].status = "Reserved"
          /\ transactions[k].book_no # op.book_no
          /\ Truthy(prev.transactions[i].reservation_expiry)

\* C14: a return sets the book of the book_no Available and turns every
\* transaction of the book_no that is Reserved, Borrowed or Unreturned into
\* Returned with return_date now, whichever member holds it; books and
\* transactions of another book_no are as they were.
C14_ReturnClosesEveryActive ==
    op.name = "return" =>
        /\ op.result = "ok"
        /\ Len(books) = Len(prev.books)
        /\ \A j \in 1..Len(books) :
              books[j] = IF prev.books[j].book_no = op.book_no
                         THEN Book(op.book_no, "Available")
                         ELSE prev.books[j]
        /\ Len(transactions) = Len(prev.transactions)
        /\ \A i \in 1..Len(transactions) :
              IF /\ prev.transactions[i].book_no = op.book_no
                 /\ prev.transactions[i].status \in {"Reserved", "Borrowed", "Unreturned"}
              THEN /\ transactions[i].status = "Returned"
                   /\ StampsMinuteOf(transactions[i].return_date, prev.now)
                   /\ transactions[i].book_no = op.book_no
                   /\ transactions[i].school_id = prev.transactions[i].school_id
              ELSE transactions[i] = prev.transactions[i]

\* A return of a book that is overdue, while another member holds a
\* reservation of the other book.
C14_Witness ==
    /\ op.name = "return"
    /\ \E i, k \in 1..Len(transactions) :
          /\ prev.transactions[i].book_no = op.book_no
          /\ prev.transactions[i].status = "Unreturned"
          /\ transactions[i].status = "Returned"
          /\ transactions[k].book_no # op.book_no
          /\ transactions[k].status = "Reserved"
          /\ transactions[k].school_id # transactions[i].school_id

\* A return of a book that is only reserved.
C14_WitnessReserved ==
    /\ op.name = "return"
    /\ \E i \in 1..Len(transactions) :
          /\ prev.transactions[i].book_no = op.book_no
          /\ prev.transactions[i].status = "Reserved"
          /\ transactions[i].status = "Returned"

(***************************************************************************)
(* Properties of the guards of reserve (checked under SpecQuota).          *)
(***************************************************************************)
\* C15: the duplicate and quota guards of reserve come before the
\* availability test: a member who holds a Reserved transaction of the book
\* is answered DuplicateReservation, and a member at quota who asks for a
\* book that is not Available (and that the first guard does not catch) is
\* answered QuotaExceeded; neither is answered Unavailable.
C15_GuardsBeforeAvailability ==
    op.name = "reserve" =>
        /\ HoldsTarget => op.result = "DuplicateReservation"
        /\ (/\ AtQuota
            /\ ~HoldsTarget
            /\ AvailableRows(Synced.books, op.book_no) = {})
           => op.result = "QuotaExceeded"
        /\ (HoldsTarget \/ AtQuota) => op.result # "Unavailable"

\* A member at quota refused a book another member has reserved.
C15_Witness ==
    /\ AtQuota
    /\ ~HoldsTarget
    /\ op.result = "QuotaExceeded"
    /\ \E t \in Range(Synced.transactions) :
          /\ t.book_no = op.book_no
          /\ t.status = "Reserved"
          /\ t.school_id # StripLower(op.school_id)

\* A member refused a book that member has reserved.
C15_WitnessDuplicate ==
    /\ op.name = "reserve"
    /\ HoldsTarget
    /\ op.result = "DuplicateReservation"

(***************************************************************************)
(* Properties of the rejections (checked under Spec).                      *)
(***************************************************************************)
StoreUnchanged ==
    /\ books = prev.books
    /\ transactions = prev.transactions
    /\ tickets = prev.tickets

ConflictRejected ==
    \/ op.name = "reserve" /\ op.result \in {"DuplicateReservation", "QuotaExceeded"}
    \/ op.name = "borrow" /\ op.result = "NotReserved"

\* C16 as stated: a reserve rejected as a duplicate or for the quota, and a
\* borrow rejected as not reserved, leave books, transactions and tickets
\* exactly as they were just before the call.
C16_AsStated == ConflictRejected => StoreUnchanged

\* C16, amended: a borrow rejected as not reserved leaves books, transactions
\* and tickets exactly as they were just before the call; a reserve rejected
\* as a duplicate or for the quota leaves them exactly as the reconcile it
\* runs first left them, which is as they were before the call when that
\* reconcile found nothing expired or overdue.
C16_RejectionsAfterReconcile ==
    /\ (op.name = "borrow" /\ op.result = "NotReserved") => StoreUnchanged
    /\ (op.name = "reserve" /\ op.result \in {"DuplicateReservation", "QuotaExceeded"})
       => /\ NothingReserved
          /\ tickets = Synced.tickets
          /\ (~Synced.changes_made /\ ~Synced.tickets_saved) => StoreUnchanged

\* A reserve rejected as a duplicate whose reconcile marked a loan overdue.
C16_Witness ==
    /\ op.name = "reserve"
    /\ op.result = "DuplicateReservation"
    /\ Synced.changes_made
    /\ books # prev.books
    /\ transactions # prev.transactions

\* A borrow rejected as not reserved while the store holds a reservation.
C16_WitnessBorrow ==
    /\ op.name = "borrow"
    /\ op.result = "NotReserved"
    /\ transactions # <<>>

(***************************************************************************)
(* SpecInvalid: the circulation calls with identifiers that are missing or *)
(* empty ("" stands for both: neither equals the book_no of a book, and a  *)
(* missing school_id is read as ""), with the book_no of no book ("B9")    *)
(* and with every kind of return_date.                                     *)
(***************************************************************************)
InvalidBookNoInputs == {"B1", "", "B9"}
InvalidSchoolIdInputs == {"Alice", ""}
InvalidReturnDateInputs == {EmptyV, BadV, StrfDay(StartNow)}

NextInvalid ==
    \/ Reserve(InvalidBookNoInputs, InvalidSchoolIdInputs, PickupInputs, MaxInvalidCalls)
    \/ Borrow(InvalidBookNoInputs, InvalidSchoolIdInputs, InvalidReturnDateInputs,
              MaxInvalidCalls)
    \/ Return(InvalidBookNoInputs, MaxInvalidCalls)
    \/ Reconcile(MaxInvalidCalls)
    \/ Tick(ClockJumps, MaxInvalidCalls)

SpecInvalid == Init /\ [][NextInvalid]_vars

\* The last call lacks an identifier it needs, or is a borrow without a
\* return_date that is a bare date.
LacksInput ==
    \/ op.name \in {"reserve", "borrow", "return"} /\ op.book_no = ""
    \/ op.name \in {"reserve", "borrow"} /\ StripLower(op.school_id) = ""
    \/ op.name = "borrow" /\ ~Parses(op.date, "day")

\* C17: a reserve, borrow or return without a book_no, a reserve or borrow
\* without a school_id and a borrow without a return_date that is a date are
\* answered with a failure and leave every collection as it was.
C17_MissingInputRejected ==
    LacksInput => op.result # "ok" /\ StoreUnchanged

\* The last call names a book_no that no book row carries.
UnknownBook ==
    /\ op.name \in {"reserve", "borrow", "return"}
    /\ op.book_no # ""
    /\ \A b \in Range(prev.books) : b.book_no # op.book_no

\* C18: a reserve, borrow or return whose book_no matches no book is answered
\* with a failure and changes no transaction.
C18_UnknownBookRejected ==
    UnknownBook => op.result # "ok" /\ transactions = prev.transactions

(***************************************************************************)
(* SpecSpelling: circulation and ticket calls whose identifiers come in    *)
(* two spellings that differ in letter case only.                          *)
(***************************************************************************)
SpelledBookNoInputs == {"B1", "b1"}
SpelledIdInputs == {"Alice", "alice"}

NextSpelling ==
    \/ Reserve(SpelledBookNoInputs, SpelledIdInputs, PickupInputs, MaxSpellingCalls)
    \/ Borrow(SpelledBookNoInputs, SpelledIdInputs, DueDateInputs, MaxSpellingCalls)
    \/ Return(SpelledBookNoInputs, MaxSpellingCalls)
    \/ Reconcile(MaxSpellingCalls)
    \/ Tick(ClockJumps, MaxSpellingCalls)
    \/ RequestReset(SpelledIdInputs, MaxSpellingCalls)
    \/ ApproveTicket(SpelledIdInputs, {"K7Q2ZD"}, MaxSpellingCalls)

SpecSpelling == Init /\ [][NextSpelling]_vars

\* Two spellings of one identifier.
SameIdentifier(a, b) == StripLower(a) = StripLower(b)

\* C19: identifiers are matched without regard to letter case and surrounding
\* blanks.  A reserve of a book that is Available under some spelling of the
\* book_no, by a member below the quota who holds no reservation of it, is
\* accepted; a borrow by the member who reserved the book, the book being
\* Reserved, with a due date that is a date, is accepted under any spelling
\* of the book_no; an approval finds the ticket of the identity under any
\* spelling of the school_id.
C19_SpellingIgnored ==
    /\ (/\ op.name = "reserve"
        /\ ~AtQuota
        /\ \A i \in HeldBy(Synced.transactions, StripLower(op.school_id)) :
              ~SameIdentifier(Synced.transactions[i].book_no, op.book_no)
        /\ \E b \in Range(Synced.books) :
              SameIdentifier(b.book_no, op.book_no) /\ b.status = "Available")
       => op.result = "ok"
    /\ (/\ op.name = "borrow"
        /\ Parses(op.date, "day")
        /\ \E t \in Range(prev.transactions) :
              /\ SameIdentifier(t.book_no, op.book_no)
              /\ SameIdentifier(t.school_id, op.school_id)
              /\ t.status = "Reserved"
        /\ \E b \in Range(prev.books) :
              SameIdentifier(b.book_no, op.book_no) /\ b.status = "Reserved")
       => op.result = "ok"
    /\ (/\ op.name = "approve"
        /\ \E k \in Range(prev.tickets) : SameIdentifier(k.school_id, op.school_id))
       => op.result = "ok"

(***************************************************************************)
(* Properties of the ticket request (checked under SpecTicket).            *)
(***************************************************************************)
\* The tickets of the other identities, in order.
OtherTickets(tks, s_id) ==
    LET LAMBDA_O(k) == k.school_id # s_id
    IN  SelectSeq(tks, LAMBDA_O)

\* C20: a request of a known identity leaves exactly one ticket of the
\* identity, pending, with a null code and an expiry of now + 5 minutes,
\* whatever ticket the identity had, so that no code staff issued for the
\* earlier ticket finalizes; a request of an identity no registry holds is
\* rejected and leaves the tickets as they were.
C20_RequestReplacesTicket ==
    op.name = "request" =>
        LET s_id == StripLower(op.school_id)
        IN  IF RecordsOf(prev.users, s_id) \cup RecordsOf(prev.admins, s_id) # {}
            THEN /\ op.result = "ok"
                 /\ Cardinality({i \in 1..Len(tickets) : tickets[i].school_id = s_id}) = 1
                 /\ \A k \in TicketsOf(tickets, s_id) :
                       /\ k.status = "pending"
                       /\ k.code = NoCode
                       /\ k.expiry = StrfSec(prev.now + 5 * 60)
                 /\ OtherTickets(tickets, s_id) = OtherTickets(prev.tickets, s_id)
                 /\ \A code \in CodeInputs \ {NoCode} :
                       ApiFinalizeReset(tickets, users, admins, op.school_id,
                                        code, "pw1").result = "InvalidOrExpiredCode"
            ELSE /\ op.result = "IdentityNotFound"
                 /\ tickets = prev.tickets

\* A request made over a ticket staff had just approved.
C20_Witness ==
    /\ op.name = "request"
    /\ op.result = "ok"
    /\ prev.name = "approve"
    /\ \E k \in TicketsOf(prev.tickets, StripLower(op.school_id)) :
          k.status = "approved" /\ k.code # NoCode

\* A request of an identity no registry holds, the tickets not being empty.
C20_WitnessUnknown ==
    /\ op.name = "request"
    /\ op.result = "IdentityNotFound"
    /\ tickets # <<>>

(***************************************************************************)
(* _build_monthly_leaderboard_payload: the monthly leaderboard.            *)
(***************************************************************************)
\* The texts of the model in the order Python and SQLite compare them
\* (code point order: capitals before small letters).
TextOrder ==
    <<"", "Admin", "Alice", "B1", "B2", "B3", "admin", "alice", "b1", "b2", "b3", "bob">>

TextRank(s) == CHOOSE i \in 1..Len(TextOrder) : TextOrder[i] = s

\* str(x).strip() over the identifiers of the model.
Strip(s) == IF s = " bob " THEN "bob" ELSE s

\* str.lower() and SQL LOWER over the stripped identifiers of the model.
Lower(s) ==
    CASE s = "Alice" -> "alice"
      [] s = "Admin" -> "admin"
      [] s = "B1" -> "b1"
      [] s = "B2" -> "b2"
      [] s = "B3" -> "b3"
      [] OTHER -> s

\* str(status).strip().lower() over the status texts of the model.
LowerStatus(s) ==
    CASE s = "Borrowed" -> "borrowed"
      [] s = "Returned" -> "returned"
      [] s = "Reserved" -> "reserved"
      [] s = "Unreturned" -> "unreturned"
      [] OTHER -> s

\* The calendar of the model: twelve months of thirty days.
MonthOf(t) == (t \div (30 * DaySecs)) % 12
YearOf(t) == t \div (12 * 30 * DaySecs)

\* _extract_transaction_date: the legacy key first, any of three formats.
ExtractTransactionDate(tx) == OrElse(tx.transaction_date, tx.date)

InCurrentMonth(d, n) ==
    /\ ParsesAny(d)
    /\ YearOf(d.v) = YearOf(n)
    /\ MonthOf(d.v) = MonthOf(n)

CurrentMonthBorrowedTransactions(txs, n) ==
    LET LAMBDA_M(tx) ==
            /\ InCurrentMonth(ExtractTransactionDate(tx), n)
            /\ LowerStatus(tx.status) \in {"borrowed", "returned"}
    IN  SelectSeq(txs, LAMBDA_M)

\* The keys of borrower_counter in the order the loop first meets them.
RECURSIVE BorrowerKeys(_)
BorrowerKeys(monthly) ==
    IF monthly = <<>> THEN <<>>
    ELSE LET keys == BorrowerKeys(SubSeq(monthly, 1, Len(monthly) - 1))
             tx == monthly[Len(monthly)]
         IN  IF \/ Strip(tx.school_id) = ""
                \/ Strip(tx.book_no) = ""
                \/ Strip(tx.school_id) \in Range(keys)
             THEN keys
             ELSE Append(keys, Strip(tx.school_id))

BorrowerCount(monthly, sid) ==
    Cardinality({i \in 1..Len(monthly) :
                    /\ Strip(monthly[i].school_id) = sid
                    /\ Strip(monthly[i].book_no) # ""})

\* A sort of the borrowers that compares the school_id texts as they are.
BorrowerBeforeRaw(a, b) ==
    \/ a.total > b.total
    \/ a.total = b.total /\ TextRank(a.school_id) < TextRank(b.school_id)

\* The sort key (-count, school_id.lower()).
BorrowerBefore(a, b) ==
    \/ a.total > b.total
    \/ a.total = b.total /\ TextRank(Lower(a.school_id)) < TextRank(Lower(b.school_id))

\* sorted() is stable: an item goes behind every item that is not behind it.
InsertBorrower(sorted, x) ==
    LET k == Cardinality({i \in 1..Len(sorted) : ~BorrowerBefore(x, sorted[i])})
    IN  SubSeq(sorted, 1, k) \o <<x>> \o SubSeq(sorted, k + 1, Len(sorted))

RECURSIVE SortedBorrowers(_)
SortedBorrowers(items) ==
    IF items = <<>> THEN <<>>
    ELSE InsertBorrower(SortedBorrowers(SubSeq(items, 1, Len(items) - 1)),
                        items[Len(items)])

Shortest(a, b) == IF a < b THEN a ELSE b

\* top_borrowers, without the display fields (name, photo, favourite book).
TopBorrowers(monthly, keys, limit) ==
    LET items == [i \in 1..Len(keys) |->
                    [school_id |-> keys[i], total |-> BorrowerCount(monthly, keys[i])]]
        sorted == SortedBorrowers(items)
    IN  [i \in 1..Shortest(limit, Len(sorted)) |->
            [rank |-> i,
             school_id |-> sorted[i].school_id,
             total_borrowed |-> sorted[i].total]]

\* The rows of monthly_transactions LEFT JOIN books that pass the WHERE, as
\* pairs of a transaction index and a book index (0: no book matched).
JoinedRows(monthly, bks) ==
    {<<i, j>> \in (1..Len(monthly)) \X (0..Len(bks)) :
        /\ Strip(monthly[i].book_no) # ""
        /\ IF j = 0
           THEN \A m \in 1..Len(bks) :
                    Lower(Strip(bks[m].book_no)) # Lower(Strip(monthly[i].book_no))
           ELSE Lower(Strip(bks[j].book_no)) = Lower(Strip(monthly[i].book_no))}

\* COALESCE(NULLIF(b.title, ''), mt.book_no)
JoinedTitle(monthly, bks, i, j) ==
    IF j > 0 /\ bks[j].title # "" THEN bks[j].title ELSE Strip(monthly[i].book_no)

\* GROUP BY mt.book_no, title with COUNT(*): the texts are grouped as they
\* are (BINARY collation).
BookGroups(monthly, bks) ==
    LET rows == JoinedRows(monthly, bks)
        keys == {<<Strip(monthly[r[1]].book_no), JoinedTitle(monthly, bks, r[1], r[2])>> :
                    r \in rows}
    IN  {[book_no |-> g[1],
          title |-> g[2],
          total |-> Cardinality({r \in rows :
                       /\ Strip(monthly[r[1]].book_no) = g[1]
                       /\ JoinedTitle(monthly, bks, r[1], r[2]) = g[2]})] : g \in keys}

\* ORDER BY total_borrowed DESC, LOWER(mt.book_no) ASC
BookBefore(a, b) ==
    \/ a.total > b.total
    \/ a.total = b.total /\ TextRank(Lower(a.book_no)) < TextRank(Lower(b.book_no))

\* The orders the query may give the groups in: rows the ORDER BY does not
\* tell apart come in any order.
BookOrders(groups) ==
    {s \in [1..Cardinality(groups) -> groups] :
        /\ \A i, j \in DOMAIN s : i # j => s[i] # s[j]
        /\ \A i, j \in DOMAIN s : i < j => ~BookBefore(s[j], s[i])}

\* top_books after LIMIT, one value for every order the query may give.
TopBooks(groups, limit) ==
    {[i \in 1..Shortest(limit, Len(s)) |->
        [rank |-> i,
         book_no |-> s[i].book_no,
         title |-> s[i].title,
         total_borrowed |-> s[i].total]] : s \in BookOrders(groups)}

(***************************************************************************)
(* SpecBoard: the leaderboard over transaction files of up to MaxBoardLen  *)
(* records, legacy records included.                                       *)
(***************************************************************************)
MaxBoardLen == 3
MaxBoardCalls == 1

\* A date in the second year of the calendar, so that the month before and
\* the year before exist.
BoardNow == StartNow + 400 * DaySecs

BoardTx(b_no, s_id, status, date, transaction_date) ==
    [book_no |-> b_no, school_id |-> s_id, status |-> status,
     date |-> date, transaction_date |-> transaction_date]

BoardTransactions ==
    {BoardTx("B1", "alice", "Borrowed", StrfMin(BoardNow), NoneV),
     BoardTx("B2", "Alice", "Returned", StrfDay(BoardNow), NoneV),
     BoardTx("b1", "admin", "Borrowed",
             StrfSec(BoardNow - 30 * DaySecs), StrfSec(BoardNow)),
     BoardTx("B1", " bob ", "Borrowed", StrfMin(BoardNow), BadV),
     BoardTx("B2", "alice", "Reserved", StrfMin(BoardNow), NoneV),
     BoardTx("B1", "alice", "Borrowed", StrfMin(BoardNow - 360 * DaySecs), NoneV),
     BoardTx("", "alice", "Returned", StrfMin(BoardNow), NoneV),
     BoardTx("B3", "", "Borrowed", StrfMin(BoardNow), EmptyV),
     BoardTx("B2", " bob ", "Returned", StrfMin(BoardNow), NoneV)}

BoardBooks ==
    <<[book_no |-> "B1", title |-> "Dune", status |-> "Available"],
      [book_no |-> "B2", title |-> "", status |-> "Available"]>>

LimitInputs == {1, 2, 10}

MonthlyLeaderboard(LIM, cap) ==
    \E limit \in LIM :
      \E monthly \in {CurrentMonthBorrowedTransactions(transactions, now)} :
        \E top_books \in TopBooks(BookGroups(monthly, books), limit) :
          /\ Recorded([name |-> "leaderboard",
                       limit |-> limit,
                       top_borrowers |-> TopBorrowers(monthly, BorrowerKeys(monthly), limit),
                       top_books |-> top_books,
                       result |-> "ok"], cap)
          /\ UNCHANGED <<books, transactions, tickets, users, admins, now, pc, loc>>

InitBoard ==
    /\ books = BoardBooks
    /\ transactions \in SeqsUpTo(BoardTransactions, MaxBoardLen)
    /\ tickets = <<>>
    /\ InitRegistry
    /\ now = BoardNow
    /\ calls = 0
    /\ op = NoCall
    /\ pc = <<>>
    /\ loc = <<>>
    /\ sessions = <<>>
    /\ logins = <<>>
    /\ InitPrev

NextBoard == MonthlyLeaderboard(LimitInputs, MaxBoardCalls)

SpecBoard == InitBoard /\ [][NextBoard]_vars

\* The transactions the leaderboard is about: effective date in the month
\* and year of now, status Borrowed or Returned.
CountsThisMonth(tx) ==
    /\ LET d == IF tx.transaction_date.k \in {"none", "empty"}
                THEN tx.date ELSE tx.transaction_date
       IN  /\ d.k \in {"sec", "min", "day"}
           /\ d.v \div (30 * DaySecs) = now \div (30 * DaySecs)
    /\ tx.status \in {"Borrowed", "Returned"}

Counted == {i \in 1..Len(transactions) : CountsThisMonth(transactions[i])}

CountOf(sid) == Cardinality({i \in Counted : Strip(transactions[i].school_id) = sid})

CountWithBookOf(sid) ==
    Cardinality({i \in Counted : /\ Strip(transactions[i].school_id) = sid
                                 /\ Strip(transactions[i].book_no) # ""})

\* Rows in the order of the claim: total descending, ties by the school_id
\* without its letter case ascending; ranks 1..n.
BorrowersOrdered(rows) ==
    /\ \A i \in 1..Len(rows) : rows[i].rank = i
    /\ \A i, j \in 1..Len(rows) :
          i < j =>
             \/ rows[i].total_borrowed > rows[j].total_borrowed
             \/ /\ rows[i].total_borrowed = rows[j].total_borrowed
                /\ TextRank(Lower(rows[i].school_id)) <= TextRank(Lower(rows[j].school_id))
    /\ \A i, j \in 1..Len(rows) : i # j => rows[i].school_id # rows[j].school_id

RowsOfBook(rows, b_no) ==
    {i \in 1..Len(rows) : Lower(rows[i].book_no) = Lower(b_no)}

\* C22: top books counts the filtered transactions whose book_no differ only
\* in letter case in one row; the rows are ordered by count descending, ties
\* by the book_no without its letter case ascending, and are at most 'limit'.
C22_TopBooksIgnoreCase ==
    op.name = "leaderboard" =>
        LET rows == op.top_books
        IN  /\ Len(rows) <= op.limit
            /\ \A i, j \in 1..Len(rows) :
                  i < j =>
                     \/ rows[i].total_borrowed > rows[j].total_borrowed
                     \/ /\ rows[i].total_borrowed = rows[j].total_borrowed
                        /\ TextRank(Lower(rows[i].book_no)) <= TextRank(Lower(rows[j].book_no))
            /\ \A i \in 1..Len(rows) :
                  /\ RowsOfBook(rows, rows[i].book_no) = {i}
                  /\ rows[i].total_borrowed =
                        Cardinality({k \in Counted :
                            Lower(Strip(transactions[k].book_no)) = Lower(rows[i].book_no)})

(***************************************************************************)
(* Properties of the engine on records with bad dates (under SpecAny).     *)
(***************************************************************************)
\* C23: whatever record has a date that does not parse or is missing, a
\* reconcile applies reservation expiry, overdue detection and the ticket
\* sweep to every other record and saves the changes: after it no Reserved
\* transaction with a readable expiry before now is left, no Borrowed
\* transaction with a readable due day before today is left Borrowed, and no
\* ticket with a readable expiry not later than now is left.
C23_BadDateNeverAborts ==
    op.name = "reconcile" =>
        /\ \A t \in Range(transactions) :
              ~(StripStatus(t.status) = "Reserved" /\ ReservationExpired(t, now))
        /\ \A t \in Range(transactions) : ~IsOverdue(t, now)
        /\ \A k \in Range(tickets) : ~(Parses(k.expiry, "sec") /\ k.expiry.v <= now)

(***************************************************************************)
(* Properties of closed and overdue transactions (checked under Spec).     *)
(***************************************************************************)
Copies(txs, t) == Cardinality({i \in 1..Len(txs) : txs[i] = t})

\* C24: every transaction that was Returned before a reserve, borrow, return
\* or reconcile call is in the collection after it, with every field as it
\* was.
C24_ReturnedIsImmutable ==
    op.name \in {"reserve", "borrow", "return", "reconcile"} =>
        \A t \in Range(prev.transactions) :
            t.status = "Returned" =>
                Copies(transactions, t) >= Copies(prev.transactions, t)

\* A return of a book in a later minute than the return that closed a
\* transaction of the same book.
C24_Witness ==
    /\ op.name = "return"
    /\ \E t \in Range(prev.transactions) :
          /\ t.status = "Returned"
          /\ t.book_no = op.book_no
          /\ t.return_date # StrfMin(now)

\* A reserve that succeeds for a book and a member that have a Returned
\* transaction.
C24_WitnessReserve ==
    /\ op.name = "reserve"
    /\ op.result = "ok"
    /\ \E t \in Range(prev.transactions) :
          /\ t.status = "Returned"
          /\ t.book_no = op.book_no
          /\ t.school_id = StripLower(op.school_id)

\* The transactions that are Unreturned with their book Unreturned too.
OverduePairs(bks, txs) ==
    {i \in 1..Len(txs) :
        /\ txs[i].status = "Unreturned"
        /\ \E b \in Range(bks) : b.book_no = txs[i].book_no
        /\ \A b \in Range(bks) : b.book_no = txs[i].book_no => b.status = "Unreturned"}

\* C25: a transaction that is Unreturned with its book Unreturned is left so
\* by every reconcile, reserve and borrow call, and by a return of another
\* book; a return of its book_no makes the transaction Returned and the book
\* Available.
C25_UnreturnedUntilReturn ==
    op.name \in {"reserve", "borrow", "return", "reconcile"} =>
        \A i \in OverduePairs(prev.books, prev.transactions) :
            IF op.name = "return" /\ op.book_no = prev.transactions[i].book_no
            THEN /\ transactions[i] =
                        [prev.transactions[i] EXCEPT !.status = "Returned",
                                                     !.return_date = transactions[i].return_date]
                 /\ \A b \in Range(books) :
                        b.book_no = op.book_no => b.status = "Available"
            ELSE \E j \in OverduePairs(books, transactions) :
                     transactions[j] = prev.transactions[i]

\* A return of an overdue book.
C25_Witness ==
    /\ op.name = "return"
    /\ \E i \in OverduePairs(prev.books, prev.transactions) :
          prev.transactions[i].book_no = op.book_no

\* A reserve by the member of an overdue book, for that book, after it
\* became overdue.
C25_WitnessReserve ==
    /\ op.name = "reserve"
    /\ \E i \in OverduePairs(prev.books, prev.transactions) :
          /\ prev.transactions[i].book_no = op.book_no
          /\ prev.transactions[i].school_id = StripLower(op.school_id)

(***************************************************************************)
(* Properties of the engine's writes (checked under SpecAny).              *)
(***************************************************************************)
\* What the reconcile last made did: its saves are the changes_made and
\* tickets_saved of the engine on the store it loaded.
LastReconcile ==
    RunAutoSyncEngine(prev.books, prev.transactions, prev.tickets, prev.now)

\* A reservation past its expiry or a loan past its due day was in the store.
LifecycleChangeDue ==
    \E t \in Range(prev.transactions) :
        \/ StripStatus(t.status) = "Reserved" /\ ReservationExpired(t, prev.now)
        \/ IsOverdue(t, prev.now)

\* A ticket whose expiry is not later than now was in the store.
SweepDue ==
    \E k \in Range(prev.tickets) : Parses(k.expiry, "sec") /\ k.expiry.v <= prev.now

\* C26: a reconcile writes books and transactions only when reservation
\* expiry or overdue detection changed something and writes tickets only when
\* the sweep removed a ticket; a collection it does not write is as it was,
\* and a reconcile that finds nothing to change writes nothing.
C26_WritesOnlyOnChange ==
    op.name = "reconcile" =>
        /\ LastReconcile.changes_made =>
              LifecycleChangeDue /\ <<books, transactions>> # <<prev.books, prev.transactions>>
        /\ LastReconcile.tickets_saved => SweepDue /\ tickets # prev.tickets
        /\ ~LastReconcile.changes_made =>
              books = prev.books /\ transactions = prev.transactions
        /\ ~LastReconcile.tickets_saved => tickets = prev.tickets
        /\ (~LifecycleChangeDue /\ ~SweepDue) =>
              ~LastReconcile.changes_made /\ ~LastReconcile.tickets_saved

\* A reconcile that wrote books and transactions and not the tickets, a live
\* ticket being there.
C26_Witness ==
    /\ op.name = "reconcile"
    /\ LastReconcile.changes_made
    /\ ~LastReconcile.tickets_saved
    /\ tickets # <<>>

\* A reconcile that found nothing to change in a store that is not empty.
C26_WitnessNoWrite ==
    /\ op.name = "reconcile"
    /\ op.result = "ok"
    /\ ~LastReconcile.changes_made
    /\ ~LastReconcile.tickets_saved
    /\ transactions # <<>>
    /\ tickets # <<>>

(***************************************************************************)
(* SpecSweep: listing requests and the clock on stores with the tickets    *)
(* the ticket routes write, next to a reservation or a loan.               *)
(***************************************************************************)
MaxSweepCalls == 3
MaxSweepLen == 2

SweepTickets ==
    {[school_id |-> s, status |-> st.status, code |-> st.code, expiry |-> StrfSec(e)] :
        s \in {"alice"},
        st \in {[status |-> "pending", code |-> NoCode],
                [status |-> "approved", code |-> "K7Q2ZD"]},
        e \in {StartNow, StartNow + 1, StartNow + TicketMinutes * MinuteSecs}}

SweepTransactions ==
    {<<>>,
     <<Tx("B1", "Reserved", StrfSec(StartNow + 1), StrfSec(StartNow + 1), NoneV)>>,
     <<Tx("B1", "Borrowed", NoneV, NoneV, StrfDay(StartNow))>>}

InitSweep ==
    /\ transactions \in SweepTransactions
    /\ books = IF transactions = <<>>
               THEN <<Book("B1", "Available")>>
               ELSE <<Book("B1", transactions[1].status)>>
    /\ tickets \in SeqsUpTo(SweepTickets, MaxSweepLen)
    /\ InitRegistry
    /\ InitIdle
    /\ InitPrev

NextSweep ==
    \/ Reconcile(MaxSweepCalls)
    \/ Tick(TicketClockJumps \cup {DaySecs}, MaxSweepCalls)

SpecSweep == InitSweep /\ [][NextSweep]_vars

\* C27: a reconcile removes every ticket whose expiry is not later than now,
\* pending or approved, and keeps every other ticket as it was and in its
\* place, whether or not reservation expiry and overdue detection changed
\* anything.
C27_SweepRemovesExpired ==
    op.name = "reconcile" =>
        LET LAMBDA_K(k) == k.expiry.v > prev.now
        IN  /\ \A k \in Range(tickets) : k.expiry.v > prev.now
            /\ tickets = SelectSeq(prev.tickets, LAMBDA_K)

\* A reconcile that removed an approved ticket and kept a live one while it
\* changed no book and no transaction.
C27_Witness ==
    /\ op.name = "reconcile"
    /\ books = prev.books /\ transactions = prev.transactions
    /\ \E k \in Range(prev.tickets) : k.status = "approved" /\ k.expiry.v <= prev.now
    /\ Len(tickets) = 1
    /\ Len(prev.tickets) = 2

\* A reconcile that removed a ticket at the very second of its expiry and
\* released a reserved book as well.
C27_WitnessWithExpiry ==
    /\ op.name = "reconcile"
    /\ books # prev.books
    /\ \E k \in Range(prev.tickets) : k.expiry.v = prev.now
    /\ tickets = <<>>
    /\ prev.tickets # <<>>

(***************************************************************************)
(* SpecReserveConc: two reserve requests in service at a time, one per     *)
(* process.  api_reserve is cut where it reads a whole collection and      *)
(* where it writes one back: the engine's loads, the engine's saves, the   *)
(* load of books, the load of transactions (the guards work on what was    *)
(* loaded), the save of books and the save of transactions.  The first two *)
(* loads of the handler (lines 977-978) are never read and are left out.   *)
(***************************************************************************)
MaxReserveTicks == 1

ReserveLocals(name, b_no, s_id, bks, txs, tks) ==
    [name |-> name, b_no |-> b_no, s_id |-> s_id,
     books |-> bks, transactions |-> txs, tickets |-> tks,
     result |-> "", out |-> [books |-> <<>>, transactions |-> <<>>, tickets |-> <<>>]]

\* A save that adds the new record to what the file holds at the save.
WrittenOntoCurrent(out, current) == Append(current, out[Len(out)])

\* save_db: the file becomes the list the handler holds.
WrittenTransactions(out, current) == out

\* The last write of the transactions, for the properties.
Wrote(p, name, result) ==
    /\ op' = [name |-> name, proc |-> p, book_no |-> loc[p].b_no,
              school_id |-> loc[p].s_id, result |-> result]
    /\ prev' = Snapshot

ReserveEngineLoad(p) ==
    /\ pc[p] = "idle"
    /\ \E b_no \in BookNoInputs, sid \in SchoolIdInputs :
          Goes(p, "reserve_engine_save",
               ReserveLocals("reserve", b_no, sid, books, transactions, tickets))
    /\ UNCHANGED <<books, transactions, tickets, users, admins, sessions, logins, now, calls, op, prev>>

ReserveEngineSave(p) ==
    /\ pc[p] = "reserve_engine_save"
    /\ \E r \in {RunAutoSyncEngine(loc[p].books, loc[p].transactions,
                                   loc[p].tickets, now)} :
          /\ tickets' = IF r.tickets_saved THEN r.tickets ELSE tickets
          /\ books' = IF r.changes_made THEN r.books ELSE books
          /\ transactions' = IF r.changes_made THEN r.transactions ELSE transactions
          /\ IF r.changes_made
             THEN Wrote(p, "sync", "ok")
             ELSE UNCHANGED <<op, prev>>
          /\ IF r.raised
             THEN Goes(p, "done", [loc[p] EXCEPT !.result = "error"])
             ELSE Goes(p, "reserve_load_books", loc[p])
    /\ UNCHANGED <<users, admins, sessions, logins, now, calls>>

ReserveLoadBooks(p) ==
    /\ pc[p] = "reserve_load_books"
    /\ Goes(p, "reserve_load_transactions", [loc[p] EXCEPT !.books = books])
    /\ UNCHANGED <<books, transactions, tickets, users, admins, sessions, logins, now, calls, op, prev>>

ReserveLoadTransactions(p) ==
    /\ pc[p] = "reserve_load_transactions"
    /\ \E r \in {ReserveAfterSync(
                   [books |-> loc[p].books, transactions |-> transactions,
                    tickets |-> loc[p].tickets],
                   now, loc[p].b_no, StripLower(loc[p].s_id), EmptyV,
                   [raised |-> FALSE, books |-> loc[p].books,
                    transactions |-> transactions, tickets |-> loc[p].tickets])} :
          Goes(p, IF r.result = "ok" THEN "reserve_save_books" ELSE "done",
               [loc[p] EXCEPT !.transactions = transactions,
                              !.result = r.result,
                              !.out = r.db])
    /\ UNCHANGED <<books, transactions, tickets, users, admins, sessions, logins, now, calls, op, prev>>

ReserveSaveBooks(p) ==
    /\ pc[p] = "reserve_save_books"
    /\ books' = loc[p].out.books
    /\ pc' = [pc EXCEPT ![p] = "reserve_save_transactions"]
    /\ UNCHANGED <<transactions, tickets, users, admins, sessions, logins, now, calls, op, prev, loc>>

ReserveSaveTransactions(p) ==
    /\ pc[p] = "reserve_save_transactions"
    /\ transactions' = WrittenTransactions(loc[p].out.transactions, transactions)
    /\ Wrote(p, "reserve", "ok")
    /\ pc' = [pc EXCEPT ![p] = "done"]
    /\ UNCHANGED <<books, tickets, users, admins, sessions, logins, now, calls, loc>>

ReserveClock(cap) ==
    /\ calls < cap
    /\ calls' = calls + 1
    /\ now' = now + DaySecs
    /\ UNCHANGED <<books, transactions, tickets, users, admins, sessions, logins, pc, loc, op, prev>>

InitReserveConc ==
    /\ books = <<Book("B1", "Available"), Book("B2", "Available")>>
    /\ transactions = <<>>
    /\ tickets = <<>>
    /\ InitRegistry
    /\ now = StartNow
    /\ calls = 0
    /\ op = NoCall
    /\ pc = [p \in Procs |-> "idle"]
    /\ loc = [p \in Procs |-> ReserveLocals("idle", "", "", <<>>, <<>>, <<>>)]
    /\ sessions = <<>>
    /\ logins = <<>>
    /\ InitPrev

NextReserveConc ==
    \/ \E p \in Procs : ReserveEngineLoad(p)
    \/ \E p \in Procs : ReserveEngineSave(p)
    \/ \E p \in Procs : ReserveLoadBooks(p)
    \/ \E p \in Procs : ReserveLoadTransactions(p)
    \/ \E p \in Procs : ReserveSaveBooks(p)
    \/ \E p \in Procs : ReserveSaveTransactions(p)
    \/ ReserveClock(MaxReserveTicks)

SpecReserveConc == InitReserveConc /\ [][NextReserveConc]_vars

\* The Transaction a successful reserve appended.
MadeBy(p) == loc[p].out.transactions[Len(loc[p].out.transactions)]

\* C28: the last save wins: after a reserve saved the transactions, and until
\* the next save, the collection is what that reserve had loaded plus its own
\* reservation, whatever another request had written since the load.
C28_LastSaveWins ==
    op.name = "reserve" =>
        transactions = Append(loc[op.proc].transactions, MadeBy(op.proc))

\* Two reserves of different books, both done and both answered with success,
\* and the Transaction of one of them is not in the collection.
C28_Witness ==
    /\ \A p \in Procs : pc[p] = "done" /\ loc[p].result = "ok"
    /\ \E p, q \in Procs :
          /\ loc[p].b_no # loc[q].b_no
          /\ \A t \in Range(transactions) : t.book_no # loc[p].b_no
          /\ \E t \in Range(transactions) : t.book_no = loc[q].b_no

(***************************************************************************)
(* Sessions: ACTIVE_SESSIONS, api_login, api_logout, require_auth and      *)
(* is_session_valid.  A token is the number of the call that issued it     *)
(* (uuid4: never issued twice); NoToken is a request without the header.   *)
(***************************************************************************)
SESSION_TIMEOUT_HOURS == 2

HourSecs == 60 * MinuteSecs

NoToken == 0

\* A session that still authenticates at the very second it expires.
SessionLiveAtExpiry(session, n) == n <= session.expires

\* datetime.now() < session["expires"]
SessionLive(session, n) == n < session.expires

Without(sess, gone) == [u \in DOMAIN sess \ gone |-> sess[u]]

\* require_auth: the user of the first live session of the token; when there
\* is none, the expired sessions of the token are deleted.
RequireAuth(sess, token, n) ==
    IF token = NoToken
    THEN [result |-> "None", sessions |-> sess]
    ELSE IF \E u \in DOMAIN sess : sess[u].token = token /\ SessionLive(sess[u], n)
    THEN [result |-> "ok", sessions |-> sess]
    ELSE [result |-> "None",
          sessions |-> Without(sess, {u \in DOMAIN sess : sess[u].token = token})]

IsSessionValid(sess, user_id, token, n) ==
    LET key == StripLower(user_id)
    IN  IF key \notin DOMAIN sess \/ sess[key].token # token
        THEN [result |-> "None", sessions |-> sess]
        ELSE IF ~SessionLive(sess[key], n)
        THEN [result |-> "None", sessions |-> Without(sess, {key})]
        ELSE [result |-> "ok", sessions |-> sess]

\* find_any_user: the first admin of the identity, else the first user.
FoundUser(adm, usr, s_id) ==
    LET reg == adm \o usr
        found == {i \in 1..Len(reg) : StripLower(reg[i].school_id) = s_id}
    IN  IF s_id = "" \/ found = {} THEN <<>> ELSE <<reg[FirstIndex(found)]>>

ApiLogin(adm, usr, sess, sid_raw, pwd, n, token) ==
    LET s_id == StripLower(sid_raw)
        user == FoundUser(adm, usr, s_id)
    IN  IF user = <<>>
        THEN [result |-> "IdNotFound", sessions |-> sess]
        ELSE IF user[1].status = "pending"
        THEN [result |-> "Pending", sessions |-> sess]
        ELSE IF user[1].password = pwd
        THEN [result |-> "ok",
              sessions |-> [u \in DOMAIN sess \cup {s_id} |->
                              IF u = s_id
                              THEN [token |-> token,
                                    expires |-> n + SESSION_TIMEOUT_HOURS * HourSecs]
                              ELSE sess[u]]]
        ELSE [result |-> "InvalidPassword", sessions |-> sess]

ApiLogout(sess, token) ==
    LET found == {u \in DOMAIN sess : sess[u].token = token}
    IN  IF found = {}
        THEN [result |-> "Unauthorized", sessions |-> sess]
        ELSE [result |-> "ok", sessions |-> Without(sess, {CHOOSE u \in found : TRUE})]

(***************************************************************************)
(* SpecSession: logins, logouts, lookups and the clock, one call at a      *)
(* time.  logins is the history of the logins that issued a token and of   *)
(* the logout requests.                                                    *)
(***************************************************************************)
MaxSessionCalls == 4

Account(s_id, pwd, status) == [school_id |-> s_id, password |-> pwd, status |-> status]

LoginInputs ==
    {<<"Alice", "pw0">>, <<"Alice", "bad">>, <<"admin", "pw0">>,
     <<" bob ", "pw0">>, <<"ghost", "pw0">>}
TokenInputs == {NoToken, 1, 2}
SessionIdInputs == {"Alice"}
SessionClockJumps == {HourSecs, SESSION_TIMEOUT_HOURS * HourSecs}

SessionCall(name, user, token, result) ==
    [name |-> name, user |-> user, token |-> token, result |-> result,
     before |-> sessions]

Login(cap) ==
    \E in \in LoginInputs :
      \E r \in {ApiLogin(admins, users, sessions, in[1], in[2], now, calls + 1)} :
          /\ Noted(SessionCall("login", in[1], calls + 1, r.result), cap)
          /\ sessions' = r.sessions
          /\ logins' = IF r.result = "ok"
                       THEN Append(logins, [kind |-> "login", user |-> StripLower(in[1]),
                                            token |-> calls + 1, at |-> now])
                       ELSE logins
          /\ UNCHANGED <<books, transactions, tickets, users, admins, now, pc, loc>>

Logout(cap) ==
    \E token \in TokenInputs :
      \E r \in {ApiLogout(sessions, token)} :
          /\ Noted(SessionCall("logout", "", token, r.result), cap)
          /\ sessions' = r.sessions
          /\ logins' = Append(logins, [kind |-> "logout", user |-> "",
                                       token |-> token, at |-> now])
          /\ UNCHANGED <<books, transactions, tickets, users, admins, now, pc, loc>>

\* A request to a route that starts with require_auth.
Authenticate(cap) ==
    \E token \in TokenInputs :
      \E r \in {RequireAuth(sessions, token, now)} :
          /\ Noted(SessionCall("auth", "", token, r.result), cap)
          /\ sessions' = r.sessions
          /\ UNCHANGED <<books, transactions, tickets, users, admins, now, pc, loc, logins>>

\* A request to a route that asks is_session_valid.
Validate(cap) ==
    \E user_id \in SessionIdInputs, token \in TokenInputs :
      \E r \in {IsSessionValid(sessions, user_id, token, now)} :
          /\ Noted(SessionCall("valid", user_id, token, r.result), cap)
          /\ sessions' = r.sessions
          /\ UNCHANGED <<books, transactions, tickets, users, admins, now, pc, loc, logins>>

SessionTick(cap) ==
    \E d \in SessionClockJumps :
      /\ Noted(SessionCall("tick", "", NoToken, ""), cap)
      /\ now' = now + d
      /\ UNCHANGED <<books, transactions, tickets, users, admins, pc, loc,
                     sessions, logins>>

InitSession ==
    /\ books = <<>>
    /\ transactions = <<>>
    /\ tickets = <<>>
    /\ users = <<Account("alice", "pw0", "approved"), Account("bob", "pw0", "pending")>>
    /\ admins = <<Account("admin", "pw0", "approved")>>
    /\ InitIdle
    /\ InitPrev

NextSession ==
    \/ Login(MaxSessionCalls)
    \/ Logout(MaxSessionCalls)
    \/ Authenticate(MaxSessionCalls)
    \/ Validate(MaxSessionCalls)
    \/ SessionTick(MaxSessionCalls)

SpecSession == InitSession /\ [][NextSession]_vars

\* The token was stored for the user by the user's most recent login, the
\* login was made less than 2 hours before n, and no logout with the token
\* was asked for since.
IssuedAndLive(user, token, n) ==
    \E i \in 1..Len(logins) :
        /\ logins[i].kind = "login"
        /\ logins[i].user = user
        /\ logins[i].token = token
        /\ n - logins[i].at < 2 * 60 * 60
        /\ \A j \in (i + 1)..Len(logins) :
              /\ ~(logins[j].kind = "login" /\ logins[j].user = user)
              /\ ~(logins[j].kind = "logout" /\ logins[j].token = token)

\* C29: a token authenticates a request exactly when it is the token the
\* most recent login of some user stored (of the user named, where the
\* request names one), that login is less than 2 hours old and no logout
\* with the token was made since; the clock alone removes no session; a
\* lookup that finds the session of its token expired deletes it and fails.
C29_TokenAuthenticates ==
    /\ op.name = "auth" =>
          (op.result = "ok" <=>
              \E u \in {"alice", "admin", "bob"} : IssuedAndLive(u, op.token, now))
    /\ op.name = "valid" =>
          (op.result = "ok" <=> IssuedAndLive(StripLower(op.user), op.token, now))
    /\ op.name = "tick" => sessions = op.before
    /\ op.name \in {"auth", "valid"} =>
          \A u \in DOMAIN op.before :
              (/\ op.before[u].token = op.token
               /\ op.name = "valid" => u = StripLower(op.user)
               /\ now >= op.before[u].expires)
              => op.result = "None" /\ u \notin DOMAIN sessions

\* A lookup, 2 hours to the second after the login, of a session the clock
\* had left in place: it fails and deletes the session.
C29_Witness ==
    /\ op.name = "auth"
    /\ op.result = "None"
    /\ \E u \in DOMAIN op.before :
          /\ op.before[u].token = op.token
          /\ op.before[u].expires = now
          /\ u \notin DOMAIN sessions

\* A token that a second login of its user replaced, an hour after it was
\* issued: it does not authenticate.
C29_WitnessReplaced ==
    /\ op.name = "auth"
    /\ op.result = "None"
    /\ \E i, j \in 1..Len(logins) :
          /\ i < j
          /\ logins[i].kind = "login" /\ logins[j].kind = "login"
          /\ logins[i].user = logins[j].user
          /\ logins[i].token = op.token
          /\ now - logins[i].at < 2 * 60 * 60

\* A token that authenticates an hour after its login.
C29_WitnessLive ==
    /\ op.name = "auth"
    /\ op.result = "ok"
    /\ \E i \in 1..Len(logins) : logins[i].token = op.token /\ now - logins[i].at = 60 * 60

(***************************************************************************)
(* Agreement of books and transactions (checked under Spec).               *)
(***************************************************************************)
ActiveOf(b_no) ==
    {j \in 1..Len(transactions) :
        transactions[j].book_no = b_no /\ transactions[j].status \in ActiveStatuses}

\* C30: after any sequence of reserve, borrow, return and reconcile calls
\* made one at a time from the library of Init, a book is Reserved, Borrowed
\* or Unreturned exactly when one transaction of its book_no has that status
\* and no other is active, and is Available exactly when no transaction of
\* its book_no is Reserved, Borrowed or Unreturned.
C30_BookAndTransactionAgree ==
    \A b \in Range(books) :
        /\ b.status \in ActiveStatuses \cup {"Available"}
        /\ b.status = "Available" <=> ActiveOf(b.book_no) = {}
        /\ \A st \in ActiveStatuses :
              b.status = st <=>
                 /\ Cardinality(ActiveOf(b.book_no)) = 1
                 /\ \A j \in ActiveOf(b.book_no) : transactions[j].status = st

\* A library with an overdue book and a reserved one, left by a reserve or a
\* reconcile that followed a call that changed the store.
C30_Witness ==
    /\ \E b \in Range(books) : b.status = "Unreturned"
    /\ \E b \in Range(books) : b.status = "Reserved"
    /\ op.name \in {"reserve", "reconcile"}
    /\ prev.changed

\* A library after a reconcile swept an expired reservation and released its
\* book.
C30_WitnessSwept ==
    /\ op.name = "reconcile"
    /\ Len(transactions) < Len(prev.transactions)
    /\ \E b \in Range(books) : b.status = "Available"

(***************************************************************************)
(* Double reservation by interleaved reserves (under SpecReserveConc).     *)
(***************************************************************************)
\* The pairs of Reserved transactions of one book_no.
DoubleReservations ==
    {<<i, j>> \in (1..Len(transactions)) \X (1..Len(transactions)) :
        /\ i < j
        /\ transactions[i].status = "Reserved"
        /\ transactions[j].status = "Reserved"
        /\ transactions[i].book_no = transactions[j].book_no}

\* C31: two Reserved transactions of one book_no come from reserves of
\* different members, and the reserve that wrote the second one had loaded
\* the book as Available and, in a separate load, the transactions with the
\* first reservation already in them.
C31_DoubleReservationByStaleBook ==
    \A d \in DoubleReservations :
        /\ transactions[d[1]].school_id # transactions[d[2]].school_id
        /\ \E p \in Procs :
              /\ loc[p].result = "ok"
              /\ MadeBy(p) = transactions[d[2]]
              /\ transactions[d[1]] \in Range(loc[p].transactions)
              /\ \E b \in Range(loc[p].books) :
                    b.book_no = loc[p].b_no /\ b.status = "Available"

\* Two reserves of one book by two members, both done and both answered with
\* success, and two Reserved transactions of the book in the collection.
C31_Witness ==
    /\ \A p \in Procs : pc[p] = "done" /\ loc[p].result = "ok"
    /\ DoubleReservations # {}
    /\ \A p \in Procs : MadeBy(p) \in Range(transactions)

(***************************************************************************)
(* Borrow and return on reservations past their expiry (under Spec).       *)
(***************************************************************************)
\* C32: borrow and return run no reconcile and read no expiry: a borrow with
\* a good date for a pair that holds a Reserved transaction of a Reserved
\* book succeeds and makes it Borrowed, its expiry passed or not, and a
\* borrow or a return leaves every expired Reserved transaction of another
\* book where it was.
C32_BorrowIgnoresExpiry ==
    op.name \in {"borrow", "return"} =>
        /\ (/\ op.name = "borrow"
            /\ Parses(op.date, "day")
            /\ BorrowReady(prev, op.book_no, StripLower(op.school_id)))
           => /\ op.result = "ok"
              /\ \E i \in 1..Len(transactions) :
                    /\ HoldsReservation(prev.transactions[i], op.book_no,
                                        StripLower(op.school_id))
                    /\ transactions[i].status = "Borrowed"
        /\ \A i \in 1..Len(prev.transactions) :
              (/\ ExpiredReservation(prev.transactions[i], prev.now)
               /\ prev.transactions[i].book_no # op.book_no)
              => /\ i <= Len(transactions)
                 /\ transactions[i] = prev.transactions[i]

\* A borrow that succeeded on a reservation whose expiry had passed and that
\* no reconcile had swept.
C32_Witness ==
    /\ op.name = "borrow"
    /\ op.result = "ok"
    /\ \E t \in Range(prev.transactions) :
          /\ t.book_no = op.book_no
          /\ t.school_id = StripLower(op.school_id)
          /\ ExpiredReservation(t, prev.now)

\* A return that left the expired reservation of the other book in place.
C32_WitnessReturn ==
    /\ op.name = "return"
    /\ \E t \in Range(transactions) :
          /\ t.book_no # op.book_no
          /\ ExpiredReservation(t, now)

(***************************************************************************)
(* SpecLive: the circulation calls of Spec, one at a time, with listing    *)
(* requests (each runs the engine) that keep coming and a clock that keeps *)
(* advancing.  MaxLiveCalls bounds the reserve, borrow and return calls;   *)
(* the listings and the clock are not counted, and the clock is followed   *)
(* for as long as a reservation has its expiry ahead.                      *)
(***************************************************************************)
MaxLiveCalls == 2

LiveClockJumps == {ReservationMinutes * MinuteSecs}

\* A Reserved transaction that waits for its expiry at clock n.
Waiting(t, n) == t.status = "Reserved" /\ ~ExpiredReservation(t, n)

\* api_get_books / api_get_transactions, once more.
ReconcileAgain ==
    \E r \in {RunAutoSyncEngine(books, transactions, tickets, now)} :
        /\ op' = Call("reconcile", "", "", NoneV, NoCode, "",
                      IF r.raised THEN "error" ELSE "ok")
        /\ prev' = Snapshot
        /\ books' = r.books
        /\ transactions' = r.transactions
        /\ tickets' = r.tickets
        /\ UNCHANGED <<users, admins, now, calls, pc, loc, sessions, logins>>

\* datetime.now() of the next call is later.
ClockAdvances ==
    \E d \in LiveClockJumps :
        /\ \E t \in Range(transactions) : Waiting(t, now)
        /\ op' = Call("tick", "", "", NoneV, NoCode, "", "")
        /\ prev' = Snapshot
        /\ now' = now + d
        /\ UNCHANGED <<books, transactions, tickets, users, admins, calls,
                       pc, loc, sessions, logins>>

NextLive ==
    \/ Reserve(BookNoInputs, SchoolIdInputs, PickupInputs, MaxLiveCalls)
    \/ Borrow(BookNoInputs, SchoolIdInputs, ReturnDateInputs, MaxLiveCalls)
    \/ Return(BookNoInputs, MaxLiveCalls)
    \/ ReconcileAgain
    \/ ClockAdvances

SpecLive ==
    /\ Init
    /\ [][NextLive]_vars
    /\ WF_vars(ReconcileAgain)
    /\ WF_vars(ClockAdvances)

\* The clocks a reserve of SpecLive can read (the clock stops two jumps after
\* the last reservation), and the reservations made at them.
LiveClocks ==
    {StartNow + i * d : i \in 0..(2 * (MaxLiveCalls - 1)), d \in LiveClockJumps}

LiveReservations ==
    {NewReservation(b_no, StripLower(sid), pickup, n) :
        b_no \in BookNoInputs, sid \in SchoolIdInputs,
        pickup \in PickupInputs, n \in LiveClocks}

ReservedTransactions == {t \in Range(transactions) : t.status = "Reserved"}

BookStaysReserved(b_no) ==
    \E b \in Range(books) : b.book_no = b_no /\ b.status = "Reserved"

\* C33: with a clock that keeps advancing and a reconcile that keeps being
\* called, calls one at a time and every stored date parsable, every Reserved
\* transaction is eventually no longer a Reserved transaction of the store
\* (swept, Borrowed or Returned), and a Reserved book is eventually not
\* Reserved.
C33_ReservedEventuallyLeaves ==
    /\ [](ReservedTransactions \subseteq LiveReservations)
    /\ \A r \in LiveReservations :
          (r \in ReservedTransactions) ~> (r \notin ReservedTransactions)
    /\ \A b_no \in BookNoInputs :
          BookStaysReserved(b_no) ~> ~BookStaysReserved(b_no)

\* A reconcile that came after the clock passed the expiry of a reservation
\* nobody borrowed or returned: the reservation is gone and its book is
\* Available.
C33_Witness ==
    /\ op.name = "reconcile"
    /\ \E t \in Range(prev.transactions) :
          /\ ExpiredReservation(t, prev.now)
          /\ t \notin Range(transactions)
          /\ ~BookStaysReserved(t.book_no)
          /\ prev.name = "tick"

====
